---- MODULE Spec2Model ----
(***************************************************************************)
(* Model of the module orchestrator and of the request pipeline of the     *)
(* Ignitor express backend (src/src/core/IgnitorApp.ts and                  *)
(* src/src/core/errors/errorHandler.ts).                                    *)
(*                                                                         *)
(* A registered module is a record [name, dependencies, hasOnShutdown]     *)
(* (interface IgnitorModule); the registry `modules` is the array          *)
(* IgnitorApp.modules, and a module object is identified by its index in   *)
(* that array.                                                             *)
(***************************************************************************)
EXTENDS Integers, Sequences, FiniteSets

\* ------------------------------------------------------------------ bounds
\* Largest number of registerModule calls explored.
MaxModules == 3

\* Bound: the number of ids of the table behind a BaseService.
MaxIds == 2

\* Bound: the number of termination signals the process receives.
MaxSignals == 2

\* Bound: the number of requests handled at the same time.
MaxInflight == 1

\* Bound: the largest number of records a paginated query counts.
MaxTotal == 25

\* Bound: the number of checks of a field's schema that a value can fail.
MaxChecks == 2

\* Bound: the number of POST /register requests.
MaxRegisters == 2

\* Bound: the number of requests to the auth and the users routes, those to
\* POST /register among them.
MaxCalls == 2

\* ------------------------------------------------------- module universe
Names == {"A", "B", "C"}

\* Dependency lists without repetition, of length 0, 1 and 2.
DepLists ==
    {<<>>} \cup {<<x>> : x \in Names}
           \cup {p \in {<<x, y>> : x \in Names, y \in Names} : p[1] # p[2]}

\* Every module the sorting specification registers: each name with each
\* dependency list that mentions the module itself at most as its only entry.
AllModules ==
    {m \in [name : Names, dependencies : DepLists, hasOnShutdown : {TRUE}] :
        Len(m.dependencies) = 2 =>
            (m.dependencies[1] # m.name /\ m.dependencies[2] # m.name)}

\* The modules the lifecycle specification registers: a chain C -> B -> A,
\* a second module named A that closes a cycle with B, and modules with and
\* without a shutdown hook.
ModulePool ==
    { [name |-> "A", dependencies |-> <<>>,    hasOnShutdown |-> TRUE],
      [name |-> "A", dependencies |-> <<"B">>, hasOnShutdown |-> TRUE],
      [name |-> "B", dependencies |-> <<"A">>, hasOnShutdown |-> TRUE],
      [name |-> "C", dependencies |-> <<"B">>, hasOnShutdown |-> FALSE],
      [name |-> "C", dependencies |-> <<>>,    hasOnShutdown |-> TRUE] }

\* ------------------------------------------------------------ AppError
\* An AppError as far as the orchestrator's callers can tell errors apart:
\* its code, the module it names and, for a missing dependency, the
\* dependency it names.  code "NONE" stands for "no error thrown".
AppError(code, module, dep) == [code |-> code, module |-> module, dep |-> dep]
NoError == AppError("NONE", "", "")

VARIABLES
    modules,        \* IgnitorApp.modules
    lastSort,       \* latest sortModulesByDependencies outcome: [sorted, err]
    callLen,        \* modules.length when the latest call started
    lastCall,       \* "none", "sort", "initializeModules" or "shutdown"
    pc,             \* where the latest call stands: "idle" (returned),
                    \* "initializing", "shuttingDown", "closingContext"
    pos,            \* loop position: index into sortedModules while
                    \* initializing, the loop variable i while shutting down
    running,        \* modules whose initialize / onShutdown promise is pending
    result,         \* what the latest call settled with (NoError: resolved)
    initLog,        \* modules whose initialize the latest call invoked, in order
    initCompleted,  \* modules whose initialize resolved during the latest call
    shutLog,        \* modules whose onShutdown the latest call invoked, in order
    shutFailed,     \* modules whose onShutdown rejected during the latest call
    contextShutdown,\* the latest call has invoked context.shutdown()
    invoked,        \* modules whose initialize was ever invoked
    initialized     \* modules whose initialize ever resolved

VARIABLES
    nodeEnv,        \* process.env.NODE_ENV: "development" or "production"
    request,        \* the request being served (NoRequest before it arrives)
    stages,         \* the stages of the middleware stack the request has
                    \* entered, in order
    handler,        \* the route handler of the request: "notArrived",
                    \* "readingBody" (express.json waits for the body),
                    \* "running" (its promise is pending) or "finished"
    handlerWrote,   \* the handler has called res.status(..).json(..)
    timer,          \* the request's watchdog: "unset", "armed", "fired", "cleared"
    headersSent,    \* res.headersSent
    writes,         \* every res.status(..).json(..) call on the response, in
                    \* order: who called, the status, the body, the error the
                    \* body was built from, and whether the response took it
                    \* (headers not yet sent)
    finished,       \* the response's 'finish' event was emitted
    closed,         \* the response's 'close' event was emitted
    delegated,      \* errorHandler passed an error on with next(err)
    logged          \* the terminal events requestLogger has logged for the
                    \* request, in order: "completed", "aborted"

reqVars == <<nodeEnv, request, stages, handler, handlerWrote, timer,
             headersSent, writes, finished, closed, delegated, logged>>

VARIABLES
    options,        \* BaseService.options of the service, once constructed
    store,          \* the table behind getModel(): each id is "absent",
                    \* "live" (deletedAt null) or "deleted" (deletedAt set)
    svcResult,      \* the latest BaseService operation and its outcome
    tombstoned      \* the ids a soft deleteById has succeeded on

svcVars == <<options, store, svcResult, tombstoned>>

VARIABLES
    phase,          \* where bootstrap() stands: "bootstrap" (registering
                    \* modules), "contextInitializing", "modulesInitializing",
                    \* "serving" (spark has returned)
    initCount,      \* modules whose initialize has resolved during spark
    server,         \* the http server: "none", "listening", "closing"
                    \* (server.close() called), "closed"
    inflight,       \* requests being handled
    closeCallbacks, \* callbacks given to server.close() and not yet called
    deadline,       \* a forced-shutdown timer is set
    calls,          \* the calls of IgnitorApp.shutdown() made by the signal
                    \* handlers, in the order they started: who called, where
                    \* the call stands and the module whose hook is pending
    signals,        \* termination signals received
    exit            \* whether the process has exited, its exit code and the
                    \* process.exit call that ended it

procVars == <<phase, initCount, server, inflight, closeCallbacks, deadline,
              calls, signals, exit>>

VARIABLES
    paginated       \* the last pagination envelope computed, and by whom

pageVars == <<paginated>>

VARIABLES
    validation      \* the request validateRequest was given, its schema, the
                    \* issues it reported, the answer, and whether the route
                    \* handler was entered

valVars == <<validation>>

VARIABLES
    correlation     \* a request's inbound id headers, its req.id, the
                    \* x-request-id header of its response and the requestId
                    \* of the envelope it was answered with

corrVars == <<correlation>>

VARIABLES
    jwtSecret,      \* config.security.jwt.secret: "notLoaded" before the
                    \* configuration is read, then "defined" or "unset"
    adminRequest    \* a request for an admin-only route: the route, its
                    \* Authorization header, the stage it is at, req.userRole,
                    \* the answer and whether the handler was invoked

authVars == <<jwtSecret, adminRequest>>

VARIABLES
    users,          \* the users table: the set of its rows
    nextId,         \* the id the next row inserted gets
    registers,      \* the calls of AuthService.register by POST /register,
                    \* in the order they started
    userCalls,      \* the other calls of AuthService and UserService, in
                    \* the order they started
    tokens,         \* the payloads of the tokens returned to clients
    seeded          \* createDefaultAdmin has run

acctVars == <<users, nextId, registers, userCalls, tokens, seeded>>

\* The state of the components added to the four above.
extVars == <<pageVars, valVars, corrVars, authVars, acctVars>>

orchVars == <<modules, lastSort, callLen, lastCall, pc, pos, running, result,
              initLog, initCompleted, shutLog, shutFailed, contextShutdown,
              invoked, initialized>>
callVars == <<lastSort, callLen, lastCall, pc, pos, running, result,
              initLog, initCompleted, shutLog, shutFailed, contextShutdown,
              invoked, initialized>>

\* this.modules.find(m => m.name === depName): the index of the first module
\* of that name, 0 when there is none (undefined).
find(mods, depName) ==
    IF \E i \in 1..Len(mods) : mods[i].name = depName
    THEN CHOOSE i \in 1..Len(mods) :
            /\ mods[i].name = depName
            /\ \A j \in 1..(i - 1) : mods[j].name # depName
    ELSE 0

\* The closure state of sortModulesByDependencies: sorted, visited, temp and
\* the error thrown so far (a throw leaves every later step undone).
SortStart == [sorted |-> <<>>, visited |-> {}, temp |-> {}, err |-> NoError]

RECURSIVE visit(_, _, _)
RECURSIVE visitDependencies(_, _, _, _)

\* visit with sorted.push(module) moved in front of the dependency loop.
visitPushFirst(mods, i, st) ==
    IF st.err # NoError THEN st
    ELSE IF mods[i].name \in st.temp
    THEN [st EXCEPT !.err = AppError("CIRCULAR_DEPENDENCY", mods[i].name, "")]
    ELSE IF mods[i].name \notin st.visited
    THEN LET st1 == [st EXCEPT !.temp = @ \cup {mods[i].name},
                               !.sorted = Append(@, i)]
             st2 == visitDependencies(mods, i, 1, st1)
         IN  IF st2.err # NoError THEN st2
             ELSE [st2 EXCEPT !.temp = @ \ {mods[i].name},
                              !.visited = @ \cup {mods[i].name}]
    ELSE st

\* visit without the temporary marker: a module is marked visited on entry.
visitNoTemp(mods, i, st) ==
    IF st.err # NoError THEN st
    ELSE IF mods[i].name \notin st.visited
    THEN LET st1 == [st EXCEPT !.visited = @ \cup {mods[i].name}]
             st2 == visitDependencies(mods, i, 1, st1)
         IN  IF st2.err # NoError THEN st2
             ELSE [st2 EXCEPT !.sorted = Append(@, i)]
    ELSE st

\* visit(module) for the module at index i.
visit(mods, i, st) ==
    IF st.err # NoError THEN st
    ELSE IF mods[i].name \in st.temp
    THEN [st EXCEPT !.err = AppError("CIRCULAR_DEPENDENCY", mods[i].name, "")]
    ELSE IF mods[i].name \notin st.visited
    THEN LET st1 == [st EXCEPT !.temp = @ \cup {mods[i].name}]
             st2 == visitDependencies(mods, i, 1, st1)
         IN  IF st2.err # NoError THEN st2
             ELSE [st2 EXCEPT !.temp = @ \ {mods[i].name},
                              !.visited = @ \cup {mods[i].name},
                              !.sorted = Append(@, i)]
    ELSE st

\* module.dependencies.forEach(depName => ...) from the k-th entry on.
visitDependencies(mods, i, k, st) ==
    IF st.err # NoError \/ k > Len(mods[i].dependencies) THEN st
    ELSE LET depName == mods[i].dependencies[k]
             dep == find(mods, depName)
         IN  IF dep = 0
             THEN [st EXCEPT !.err =
                      AppError("MISSING_DEPENDENCY", mods[i].name, depName)]
             ELSE visitDependencies(mods, i, k + 1, visit(mods, dep, st))

\* this.modules.forEach(visit) from the i-th module on.
RECURSIVE visitAll(_, _, _)
visitAll(mods, i, st) ==
    IF st.err # NoError \/ i > Len(mods) THEN st
    ELSE visitAll(mods, i + 1, visit(mods, i, st))

\* The result of sortModulesByDependencies: the sorted modules (as registry
\* indices) or the error thrown.
sortModulesByDependencies(mods) ==
    LET st == visitAll(mods, 1, SortStart)
    IN  [sorted |-> IF st.err = NoError THEN st.sorted ELSE <<>>,
         err |-> st.err]

\* ------------------------------------------------------------- helpers
Pending == AppError("PENDING", "", "")
Range(s) == {s[k] : k \in 1..Len(s)}
Prefix(s, n) == SubSeq(s, 1, n)

\* --------------------------------------------------------- registerModule
\* registerModule(module): this.modules.push(module).
registerModule(module) ==
    /\ Len(modules) < MaxModules
    /\ modules' = Append(modules, module)
    /\ UNCHANGED callVars
    /\ UNCHANGED <<reqVars, svcVars, procVars, extVars>>

\* A call of the private sortModulesByDependencies alone.
SortModules ==
    /\ pc = "idle"
    /\ lastSort' = sortModulesByDependencies(modules)
    /\ callLen' = Len(modules)
    /\ lastCall' = "sort"
    /\ result' = sortModulesByDependencies(modules).err
    /\ initLog' = <<>> /\ initCompleted' = <<>>
    /\ shutLog' = <<>> /\ shutFailed' = {} /\ contextShutdown' = FALSE
    /\ UNCHANGED <<modules, pc, pos, running, invoked, initialized>>
    /\ UNCHANGED <<reqVars, svcVars, procVars, extVars>>

\* ------------------------------------------------------ initializeModules
\* The loop without its await: every remaining module is started at once.
initBatchAll(sortedModules, k) == SubSeq(sortedModules, k, Len(sortedModules))

\* The modules whose initialize is invoked before the loop awaits again:
\* `await module.initialize(this.context)` starts one module per iteration.
initBatch(sortedModules, k) == <<sortedModules[k]>>

\* initializeModules that starts the first registered module before it has
\* the sorted order.
initializeModulesUnsorted ==
    /\ pc = "idle"
    /\ LET s == sortModulesByDependencies(modules)
           first == IF modules = <<>> THEN <<>> ELSE <<1>>
       IN  /\ lastSort' = s
           /\ callLen' = Len(modules)
           /\ lastCall' = "initializeModules"
           /\ initCompleted' = <<>>
           /\ shutLog' = <<>> /\ shutFailed' = {} /\ contextShutdown' = FALSE
           /\ initLog' = first
           /\ invoked' = invoked \cup Range(first)
           /\ pos' = 1
           /\ IF s.err # NoError
              THEN pc' = "idle" /\ result' = s.err /\ running' = {}
              ELSE IF s.sorted = <<>>
              THEN pc' = "idle" /\ result' = NoError /\ running' = {}
              ELSE pc' = "initializing" /\ result' = Pending
                   /\ running' = Range(first)
    /\ UNCHANGED <<modules, initialized>>
    /\ UNCHANGED <<reqVars, svcVars, procVars, extVars>>

\* initializeModules() up to its first await: the sort, then the first
\* iteration of the loop.
initializeModules ==
    /\ pc = "idle"
    /\ LET s == sortModulesByDependencies(modules)
           first == IF s.sorted = <<>> THEN <<>> ELSE initBatch(s.sorted, 1)
       IN  /\ lastSort' = s
           /\ callLen' = Len(modules)
           /\ lastCall' = "initializeModules"
           /\ initCompleted' = <<>>
           /\ shutLog' = <<>> /\ shutFailed' = {} /\ contextShutdown' = FALSE
           /\ initLog' = first
           /\ running' = Range(first)
           /\ invoked' = invoked \cup Range(first)
           /\ pos' = 1
           /\ IF s.err # NoError
              THEN pc' = "idle" /\ result' = s.err
              ELSE IF s.sorted = <<>>
              THEN pc' = "idle" /\ result' = NoError
              ELSE pc' = "initializing" /\ result' = Pending
    /\ UNCHANGED <<modules, initialized>>
    /\ UNCHANGED <<reqVars, svcVars, procVars, extVars>>

\* module.initialize resolved: the loop logs success and goes on to the
\* next module, or initializeModules resolves after the last one.
InitializeResolves ==
    /\ pc = "initializing"
    /\ \E i \in running :
        /\ initCompleted' = Append(initCompleted, i)
        /\ initialized' = initialized \cup {i}
        /\ IF pos < Len(lastSort.sorted)
           THEN LET next == initBatch(lastSort.sorted, pos + 1)
                IN  /\ pos' = pos + 1
                    /\ running' = (running \ {i}) \cup Range(next)
                    /\ initLog' = initLog \o next
                    /\ invoked' = invoked \cup Range(next)
                    /\ pc' = "initializing" /\ result' = Pending
           ELSE /\ running' = running \ {i}
                /\ pc' = "idle" /\ result' = NoError
                /\ UNCHANGED <<pos, initLog, invoked>>
    /\ UNCHANGED <<modules, lastSort, callLen, lastCall, shutLog, shutFailed,
                   contextShutdown>>
    /\ UNCHANGED <<reqVars, svcVars, procVars, extVars>>

\* A catch block that logs the error without throwing it: the loop goes on.
InitializeRejectsContinues ==
    /\ pc = "initializing"
    /\ \E i \in running :
        IF pos < Len(lastSort.sorted)
        THEN LET next == initBatch(lastSort.sorted, pos + 1)
             IN  /\ pos' = pos + 1
                 /\ running' = (running \ {i}) \cup Range(next)
                 /\ initLog' = initLog \o next
                 /\ invoked' = invoked \cup Range(next)
                 /\ pc' = "initializing" /\ result' = Pending
        ELSE /\ running' = running \ {i}
             /\ pc' = "idle" /\ result' = NoError
             /\ UNCHANGED <<pos, initLog, invoked>>
    /\ UNCHANGED <<modules, lastSort, callLen, lastCall, initCompleted, shutLog,
                   shutFailed, contextShutdown, initialized>>
    /\ UNCHANGED <<reqVars, svcVars, procVars, extVars>>

\* module.initialize rejected: the catch block wraps the error with the
\* module's name and throws it, which ends the loop.
InitializeRejects ==
    /\ pc = "initializing"
    /\ \E i \in running :
        /\ result' = AppError("MODULE_INITIALIZATION_ERROR", modules[i].name, "")
        /\ running' = running \ {i}
    /\ pc' = "idle"
    /\ UNCHANGED <<modules, lastSort, callLen, lastCall, pos, initLog,
                   initCompleted, shutLog, shutFailed, contextShutdown,
                   invoked, initialized>>
    /\ UNCHANGED <<reqVars, svcVars, procVars, extVars>>

\* ---------------------------------------------------------------- shutdown
\* The next iteration of `for (let i = ...; i >= 0; i--)` at or below i whose
\* module defines onShutdown; 0 when the loop runs out.
RECURSIVE nextHook(_, _)
nextHook(mods, i) ==
    IF i = 0 THEN 0
    ELSE IF mods[i].hasOnShutdown THEN i
    ELSE nextHook(mods, i - 1)

\* The loop of shutdown() from iteration i on, up to the next await: either
\* a module's onShutdown is invoked, or the loop is over and
\* context.shutdown() is invoked.
ShutdownFrom(i) ==
    LET j == nextHook(modules, i)
    IN  IF j = 0
        THEN /\ pc' = "closingContext"
             /\ contextShutdown' = TRUE
             /\ running' = {}
             /\ UNCHANGED <<pos, shutLog>>
        ELSE /\ pc' = "shuttingDown"
             /\ pos' = j
             /\ running' = {j}
             /\ shutLog' = Append(shutLog, j)
             /\ UNCHANGED contextShutdown

\* shutdown() up to its first await.
shutdown ==
    /\ pc = "idle"
    /\ lastCall' = "shutdown"
    /\ callLen' = Len(modules)
    /\ result' = Pending
    /\ initLog' = <<>> /\ initCompleted' = <<>>
    /\ shutFailed' = {}
    /\ LET j == nextHook(modules, Len(modules))
       IN  IF j = 0
           THEN /\ pc' = "closingContext"
                /\ contextShutdown' = TRUE
                /\ running' = {}
                /\ shutLog' = <<>>
                /\ UNCHANGED pos
           ELSE /\ pc' = "shuttingDown"
                /\ pos' = j
                /\ running' = {j}
                /\ shutLog' = <<j>>
                /\ contextShutdown' = FALSE
    /\ UNCHANGED <<modules, lastSort, invoked, initialized>>
    /\ UNCHANGED <<reqVars, svcVars, procVars, extVars>>

\* module.onShutdown resolved: the loop goes on.
OnShutdownResolves ==
    /\ pc = "shuttingDown"
    /\ ShutdownFrom(pos - 1)
    /\ UNCHANGED <<modules, lastSort, callLen, lastCall, result, initLog,
                   initCompleted, shutFailed, invoked, initialized>>
    /\ UNCHANGED <<reqVars, svcVars, procVars, extVars>>

\* A shutdown loop without the try/catch: the rejection ends shutdown().
OnShutdownRejectsAborts ==
    /\ pc = "shuttingDown"
    /\ shutFailed' = shutFailed \cup {pos}
    /\ pc' = "idle"
    /\ running' = {}
    /\ result' = AppError("ONSHUTDOWN_FAILED", modules[pos].name, "")
    /\ UNCHANGED <<modules, lastSort, callLen, lastCall, pos, initLog,
                   initCompleted, shutLog, contextShutdown, invoked, initialized>>
    /\ UNCHANGED <<reqVars, svcVars, procVars, extVars>>

\* module.onShutdown rejected: the catch block logs the error and the loop
\* goes on.
OnShutdownRejects ==
    /\ pc = "shuttingDown"
    /\ shutFailed' = shutFailed \cup {pos}
    /\ ShutdownFrom(pos - 1)
    /\ UNCHANGED <<modules, lastSort, callLen, lastCall, result, initLog,
                   initCompleted, invoked, initialized>>
    /\ UNCHANGED <<reqVars, svcVars, procVars, extVars>>

\* context.shutdown() resolved: shutdown() resolves.
ContextShutdownResolves ==
    /\ pc = "closingContext"
    /\ pc' = "idle"
    /\ result' = NoError
    /\ UNCHANGED <<modules, lastSort, callLen, lastCall, pos, running, initLog,
                   initCompleted, shutLog, shutFailed, contextShutdown,
                   invoked, initialized>>
    /\ UNCHANGED <<reqVars, svcVars, procVars, extVars>>

\* context.shutdown() rejected (prisma.$disconnect failed): Context.shutdown
\* rethrows and shutdown() rejects with that error.
ContextShutdownRejects ==
    /\ pc = "closingContext"
    /\ pc' = "idle"
    /\ result' = AppError("DISCONNECT_FAILED", "", "")
    /\ UNCHANGED <<modules, lastSort, callLen, lastCall, pos, running, initLog,
                   initCompleted, shutLog, shutFailed, contextShutdown,
                   invoked, initialized>>
    /\ UNCHANGED <<reqVars, svcVars, procVars, extVars>>

\* ====================================================================
\* The request pipeline: one request from its arrival to its end
\* ====================================================================

\* ------------------------------------------------------------- errors
\* HTTPStatusCode members by name.
HTTPStatusCode(member) ==
    CASE member = "OK" -> 200
      [] member = "BAD_REQUEST" -> 400
      [] member = "UNAUTHORIZED" -> 401
      [] member = "FORBIDDEN" -> 403
      [] member = "NOT_FOUND" -> 404
      [] member = "REQUEST_TIMEOUT" -> 408
      [] member = "CONFLICT" -> 409
      [] member = "PAYLOAD_TOO_LARGE" -> 413
      [] member = "TOO_MANY_REQUESTS" -> 429
      [] member = "INTERNAL_SERVER_ERROR" -> 500
      [] member = "BAD_GATEWAY" -> 502
      [] member = "SERVICE_UNAVAILABLE" -> 503

\* A thrown value as normalizeError tells values apart: its class, err.name,
\* err.code (Prisma and multer errors), whether it has a body property, and
\* for an AppError its statusCode, code and the keys of its details.
Thrown(class, name, errCode, hasBody) ==
    [class |-> class, name |-> name, errCode |-> errCode, hasBody |-> hasBody,
     statusCode |-> 0, code |-> "", details |-> {}]

\* new AppError(statusCode, message, code, details) and its subclasses.
NewAppError(name, statusCode, code, details) ==
    [class |-> "AppError", name |-> name, errCode |-> "", hasBody |-> FALSE,
     statusCode |-> statusCode, code |-> code, details |-> details]

ValidationError(details) ==
    NewAppError("ValidationError", HTTPStatusCode("BAD_REQUEST"),
                "VALIDATION_ERROR", details)
NotFoundError(details) ==
    NewAppError("NotFoundError", HTTPStatusCode("NOT_FOUND"), "NOT_FOUND", details)
AuthenticationError(details) ==
    NewAppError("AuthenticationError", HTTPStatusCode("UNAUTHORIZED"),
                "AUTHENTICATION_ERROR", details)
ConflictError(details) ==
    NewAppError("ConflictError", HTTPStatusCode("CONFLICT"), "CONFLICT_ERROR",
                details)
RateLimitError(details) ==
    NewAppError("RateLimitError", HTTPStatusCode("TOO_MANY_REQUESTS"),
                "RATE_LIMIT_ERROR", details)
PayloadTooLargeError(details) ==
    NewAppError("PayloadTooLargeError", HTTPStatusCode("PAYLOAD_TOO_LARGE"),
                "PAYLOAD_TOO_LARGE", details)
DatabaseError(details) ==
    NewAppError("DatabaseError", HTTPStatusCode("INTERNAL_SERVER_ERROR"),
                "DATABASE_ERROR", details)
TimeoutError(details) ==
    NewAppError("TimeoutError", HTTPStatusCode("REQUEST_TIMEOUT"),
                "TIMEOUT_ERROR", details)

\* The AppError the health check throws when its probe fails.
ServiceUnavailable ==
    NewAppError("AppError", HTTPStatusCode("SERVICE_UNAVAILABLE"),
                "SERVICE_UNAVAILABLE", {"reason"})

\* A PrismaClientKnownRequestError with the given code.
PrismaError(errCode) ==
    Thrown("PrismaClientKnownRequestError", "PrismaClientKnownRequestError",
           errCode, FALSE)

\* handlePrismaError without its constraint cases.
handlePrismaErrorNoConflict(err) ==
    CASE err.errCode = "P2025" -> NotFoundError({"operation"})
      [] OTHER ->
            NewAppError("AppError", HTTPStatusCode("INTERNAL_SERVER_ERROR"),
                        "DATABASE_ERROR", {"prismaCode", "meta"})

\* handlePrismaError(err)
handlePrismaError(err) ==
    CASE err.errCode = "P2002" -> ConflictError({"fields", "constraint"})
      [] err.errCode = "P2025" -> NotFoundError({"operation"})
      [] err.errCode = "P2003" ->
            NewAppError("AppError", HTTPStatusCode("BAD_REQUEST"),
                        "FOREIGN_KEY_ERROR", {"constraint"})
      [] err.errCode = "P2014" ->
            NewAppError("AppError", HTTPStatusCode("BAD_REQUEST"),
                        "INVALID_DATA", {"relation"})
      [] OTHER ->
            NewAppError("AppError", HTTPStatusCode("INTERNAL_SERVER_ERROR"),
                        "DATABASE_ERROR", {"prismaCode", "meta"})

\* handleMulterError(err)
handleMulterError(err) ==
    CASE err.errCode = "LIMIT_FILE_SIZE" -> PayloadTooLargeError({})
      [] err.errCode = "LIMIT_FILE_COUNT" ->
            NewAppError("AppError", HTTPStatusCode("BAD_REQUEST"),
                        "TOO_MANY_FILES", {})
      [] err.errCode = "LIMIT_UNEXPECTED_FILE" ->
            NewAppError("AppError", HTTPStatusCode("BAD_REQUEST"),
                        "UNEXPECTED_FILE", {})
      [] OTHER ->
            NewAppError("AppError", HTTPStatusCode("BAD_REQUEST"),
                        "FILE_UPLOAD_ERROR", {"multerError"})

\* err instanceof Error: every class of thrown value but a non-Error value.
IsError(err) == err.class # "NonError"

\* normalizeError(err)
normalizeError(err) ==
    IF err.class = "AppError" THEN err
    ELSE IF err.class = "PrismaClientKnownRequestError"
    THEN handlePrismaError(err)
    ELSE IF err.class = "PrismaClientUnknownRequestError"
    THEN NewAppError("AppError", HTTPStatusCode("INTERNAL_SERVER_ERROR"),
                     "DATABASE_CONNECTION_ERROR", {"originalError"})
    ELSE IF IsError(err) /\ err.name = "ValidationError"
    THEN ValidationError({"originalError"})
    ELSE IF err.class = "SyntaxError" /\ err.hasBody
    THEN NewAppError("AppError", HTTPStatusCode("BAD_REQUEST"), "INVALID_JSON",
                     {"originalError"})
    ELSE IF IsError(err) /\ err.name = "MulterError"
    THEN handleMulterError(err)
    ELSE IF IsError(err) /\ err.name = "JsonWebTokenError"
    THEN AuthenticationError({"originalError"})
    ELSE IF IsError(err) /\ err.name = "TokenExpiredError"
    THEN AuthenticationError({"originalError"})
    ELSE IF IsError(err)
    THEN NewAppError("AppError", HTTPStatusCode("INTERNAL_SERVER_ERROR"),
                     "INTERNAL_ERROR", {"originalError", "stack"})
    ELSE NewAppError("AppError", HTTPStatusCode("INTERNAL_SERVER_ERROR"),
                     "UNKNOWN_ERROR", {"originalError"})

\* The errors a route handler throws in this model.
HandlerErrors ==
    { NotFoundError({}),
      ConflictError({}),
      Thrown("Error", "Error", "", FALSE),
      PrismaError("P2002"),
      PrismaError("P2025"),
      PrismaError("P2003"),
      Thrown("PrismaClientUnknownRequestError",
             "PrismaClientUnknownRequestError", "", FALSE),
      Thrown("Error", "MulterError", "LIMIT_FILE_SIZE", FALSE),
      Thrown("Error", "JsonWebTokenError", "", FALSE),
      Thrown("Error", "TokenExpiredError", "", FALSE),
      Thrown("NonError", "", "", FALSE) }

\* What res.json throws once the headers are sent (ERR_HTTP_HEADERS_SENT).
HeadersSentError == Thrown("Error", "Error", "ERR_HTTP_HEADERS_SENT", FALSE)

\* What express.json passes on for a malformed body: a SyntaxError that
\* carries the body.
BodyParseError == Thrown("SyntaxError", "SyntaxError", "", TRUE)

\* What express.json and express.urlencoded pass on for a body over their
\* limit of '10mb': the http-errors error of status 413 raised by the body
\* reader, an Error named PayloadTooLargeError that is not an AppError.
EntityTooLargeError == Thrown("Error", "PayloadTooLargeError", "", FALSE)

\* What express.json passes on when the client goes away while the body is
\* being read: the body reader's http-errors error of status 400 ('request
\* aborted'), an Error named BadRequestError that is not an AppError.
RequestAbortedError == Thrown("Error", "BadRequestError", "ECONNABORTED", FALSE)

\* No error.
NoThrown == Thrown("None", "", "", FALSE)

\* ------------------------------------------------------------ response
\* config.server.isProduction
isProduction == nodeEnv = "production"

\* The body of a success response (BaseController.sendResponse).
SuccessResponse ==
    [success |-> TRUE, code |-> "", statusCode |-> 0, details |-> {},
     stack |-> FALSE]

\* The errorResponse errorHandler builds from appError: code, statusCode,
\* details when appError has some, and stack in development.
ErrorResponse(appError) ==
    [success |-> FALSE, code |-> appError.code,
     statusCode |-> appError.statusCode, details |-> appError.details,
     stack |-> (nodeEnv = "development")]

\* res.status(statusCode).json(body) called by `by`: the response takes the
\* body if the headers are not sent yet (accepted), and the call throws
\* otherwise.  Once res has emitted 'close' the response is destroyed:
\* res.end sends nothing and does not mark the headers, so res.headersSent
\* stays as it was (sent: the response took the body and its headers were
\* marked as sent).
ResJson(by, statusCode, body, err) ==
    /\ writes' = Append(writes, [by |-> by, statusCode |-> statusCode,
                                 body |-> body, from |-> err,
                                 accepted |-> ~headersSent,
                                 sent |-> (~headersSent /\ ~closed)])
    /\ headersSent' = (headersSent \/ ~closed)

\* errorHandler without its res.headersSent test.
errorHandlerNoGuard(err) ==
    /\ ResJson("errorHandler", normalizeError(err).statusCode,
               ErrorResponse(normalizeError(err)), err)
    /\ delegated' = (delegated \/ headersSent)

\* errorHandler()(err, req, res, next): passes the error on when the response
\* is already under way, and otherwise writes the error envelope.
errorHandler(err) ==
    IF headersSent
    THEN /\ delegated' = TRUE
         /\ UNCHANGED <<writes, headersSent>>
    ELSE /\ ResJson("errorHandler", normalizeError(err).statusCode,
                    ErrorResponse(normalizeError(err)), err)
         /\ UNCHANGED delegated

\* errorHandler, the last stage of the stack, has been entered for the
\* request of this log.
ErrorHandlerEntered(log) == \E k \in 1..Len(log) : log[k] = "errorHandler"

\* next(err) after the stages of log: express skips every remaining stage
\* but the error-handling one, which is errorHandler.  errorHandler is the
\* last stage: once it has been entered no stage is left, and a later
\* next(err) of the same request leaves the stack without entering it again.
nextError(log, err) ==
    IF ErrorHandlerEntered(log)
    THEN /\ stages' = log
         /\ UNCHANGED <<writes, headersSent, delegated>>
    ELSE /\ stages' = Append(log, "errorHandler")
         /\ errorHandler(err)

\* asyncHandler(fn): a rejection of the handler is passed to next(err).
asyncHandlerCatch(err) == nextError(stages, err)

\* ------------------------------------------------------------- pipeline
\* The stages this.app.use / this.app.get add in initializeCore, in the
\* order of the calls, with cors added before helmet.
initializeCoreCorsFirst ==
    <<"requestId", "cors", "helmet", "express.json", "express.urlencoded",
      "compression", "timeout", "requestLogger">>
    \o (IF isProduction THEN <<"rateLimit">> ELSE <<>>)
    \o <<"health">>

\* The stages this.app.use / this.app.get add in initializeCore, in the
\* order of the calls.
initializeCore ==
    <<"requestId", "helmet", "cors", "express.json", "express.urlencoded",
      "compression", "timeout", "requestLogger">>
    \o (IF isProduction THEN <<"rateLimit">> ELSE <<>>)
    \o <<"health">>

\* The stages spark adds after the modules are initialized: the module
\* routers (registerModuleRoutes), notFoundHandler and errorHandler.
sparkStages == <<"moduleRoutes", "notFoundHandler", "errorHandler">>

\* The middleware stack of the started application.
appStack == initializeCore \o sparkStages

\* The requests of this model: the path asked for, the body sent ("ok":
\* none; a JSON body that is well-formed, malformed or over the limit; a
\* url-encoded body over the limit; a body over the limit of a content type
\* no parser reads), and whether the caller is over its rate limit.
NoRequest == [path |-> "", body |-> "", overLimit |-> FALSE]
Requests ==
    { [path |-> p, body |-> "ok", overLimit |-> o] :
            p \in {"/health", "/api", "/unknown"}, o \in BOOLEAN }
    \cup { [path |-> "/api", body |-> b, overLimit |-> FALSE] :
            b \in {"validJson", "malformedJson", "tooLargeJson",
                   "tooLargeUrlencoded", "tooLargeOther"} }

\* app.get('/health', ..) is entered for that path only; a stage added with
\* app.use is entered for every path.
Matches(stage, req) == stage = "health" => req.path = "/health"

StageNext == [kind |-> "next", err |-> NoThrown]
StagePending == [kind |-> "pending", err |-> NoThrown]
StageReading == [kind |-> "reading", err |-> NoThrown]
StageError(err) == [kind |-> "error", err |-> err]

\* What a stage does with the request: call next(), start a route handler
\* whose promise is pending, wait for the request body, or call next(err).
\*  - express.json and express.urlencoded read a body of their own content
\*    type from the connection and call next from a later callback; a
\*    request without a body ("ok") and a body of another content type pass
\*    at once;
\*  - the rate limiter passes a RateLimitError on for a caller over its limit
\*    and skips the health check;
\*  - the health check and a matching module route start their handler;
\*  - notFoundHandler passes a NotFoundError on.
StageRuns(stage, req) ==
    CASE stage = "express.json"
             /\ req.body \in {"validJson", "malformedJson", "tooLargeJson"} ->
              StageReading
      [] stage = "express.urlencoded" /\ req.body = "tooLargeUrlencoded" ->
              StageReading
      [] stage = "rateLimit" /\ req.overLimit /\ req.path # "/health" ->
              StageError(RateLimitError({}))
      [] stage = "health" -> StagePending
      [] stage = "moduleRoutes" /\ req.path = "/api" -> StagePending
      [] stage = "notFoundHandler" -> StageError(NotFoundError({}))
      [] OTHER -> StageNext

\* express runs the stack from stage k on while no error is passed along:
\* the error-handling stage and the routes of another path are skipped, and
\* the run stops at the first stage that does not call next().
RECURSIVE dispatch(_, _, _, _)
dispatch(stack, k, req, log) ==
    IF k > Len(stack)
    THEN [log |-> log, kind |-> "next", err |-> NoThrown]
    ELSE IF stack[k] = "errorHandler" \/ ~Matches(stack[k], req)
    THEN dispatch(stack, k + 1, req, log)
    ELSE LET out == StageRuns(stack[k], req)
         IN  IF out.kind = "next"
             THEN dispatch(stack, k + 1, req, Append(log, stack[k]))
             ELSE [log |-> Append(log, stack[k]), kind |-> out.kind,
                   err |-> out.err]

\* What the body reader of express.json / express.urlencoded passes on once
\* the body of req has been read, or the reading has ended with the
\* connection (aborted): nothing for a well-formed body; a malformed body
\* is a SyntaxError; a body that was not complete when the client went away
\* is the reader's 'request aborted' error; a body over the limit is the
\* reader's 413 error either way.
BodyReadError(req, aborted) ==
    IF req.body \in {"tooLargeJson", "tooLargeUrlencoded"}
    THEN EntityTooLargeError
    ELSE IF aborted THEN RequestAbortedError
    ELSE IF req.body = "malformedJson" THEN BodyParseError
    ELSE NoThrown

\* The place of a stage in the stack.
StackIndex(stage) == CHOOSE k \in 1..Len(appStack) : appStack[k] = stage

\* express runs the stack for req from stage k on, after the stages of log,
\* up to the first stage that does not call next() at once: a route handler
\* starts, a body parser waits for the body, or a stage passes an error on
\* and errorHandler answers.  The watchdog is set when the run gets as far
\* as the timeout stage.
Proceed(req, k, log) ==
    LET run == dispatch(appStack, k, req, log)
    IN  /\ timer' = IF \E j \in Len(log) + 1..Len(run.log) : run.log[j] = "timeout"
                    THEN "armed" ELSE timer
        /\ IF run.kind = "error"
           THEN /\ nextError(run.log, run.err)
                /\ handler' = "finished"
           ELSE /\ stages' = run.log
                /\ handler' = IF run.kind = "reading"
                              THEN "readingBody" ELSE "running"
                /\ UNCHANGED <<writes, headersSent, delegated>>

\* ------------------------------------------------------------- actions
\* The request arrives and runs through the stack from its first stage.
RequestArrives(req) ==
    /\ handler = "notArrived"
    /\ request' = req
    /\ Proceed(req, 1, <<>>)
    /\ UNCHANGED <<logged, nodeEnv, handlerWrote, finished, closed>>
    /\ UNCHANGED <<orchVars, svcVars, procVars, extVars>>

\* The body reader of the parser that waits calls back with the whole body:
\* the parser passes the reader's error on, or stores the body and calls
\* next(), and the stack goes on from the stage after the parser.
BodyRead ==
    /\ handler = "readingBody"
    /\ IF BodyReadError(request, FALSE) # NoThrown
       THEN /\ nextError(stages, BodyReadError(request, FALSE))
            /\ handler' = "finished"
            /\ UNCHANGED timer
       ELSE Proceed(request, StackIndex(stages[Len(stages)]) + 1, stages)
    /\ UNCHANGED <<logged, nodeEnv, request, handlerWrote, finished, closed>>
    /\ UNCHANGED <<orchVars, svcVars, procVars, extVars>>

\* The handler sends its response (BaseController.sendResponse, or the
\* health check's res.status(200).json); when the headers are already sent
\* res.json throws inside the handler, whose promise rejects (the health
\* check turns every failure into its ServiceUnavailable error).
HandlerResponds ==
    /\ handler = "running"
    /\ ~handlerWrote
    /\ handlerWrote' = TRUE
    /\ IF headersSent
       THEN /\ asyncHandlerCatch(IF request.path = "/health"
                                 THEN ServiceUnavailable
                                 ELSE HeadersSentError)
            /\ handler' = "finished"
       ELSE /\ ResJson("handler", HTTPStatusCode("OK"), SuccessResponse,
                       NoThrown)
            /\ UNCHANGED <<handler, delegated, stages>>
    /\ UNCHANGED <<logged, nodeEnv, request, timer, finished, closed>>
    /\ UNCHANGED <<orchVars, svcVars, procVars, extVars>>

\* The handler's promise resolves.
HandlerReturns ==
    /\ handler = "running"
    /\ handler' = "finished"
    /\ UNCHANGED <<logged, nodeEnv, request, stages, handlerWrote, timer, headersSent,
                   writes, finished, closed, delegated>>
    /\ UNCHANGED <<orchVars, svcVars, procVars, extVars>>

\* The handler throws or its promise rejects with err: a route handler with
\* any of HandlerErrors, the health check with its ServiceUnavailable error.
HandlerThrows(err) ==
    /\ handler = "running"
    /\ IF request.path = "/health"
       THEN err = ServiceUnavailable
       ELSE err \in HandlerErrors
    /\ handler' = "finished"
    /\ asyncHandlerCatch(err)
    /\ UNCHANGED <<logged, nodeEnv, request, handlerWrote, timer, finished, closed>>
    /\ UNCHANGED <<orchVars, svcVars, procVars, extVars>>

\* The watchdog callback with its test inverted.
TimeoutFiresWhenSent ==
    /\ timer = "armed"
    /\ timer' = "fired"
    /\ IF headersSent
       THEN nextError(stages, TimeoutError({}))
       ELSE UNCHANGED <<stages, writes, headersSent, delegated>>
    /\ UNCHANGED <<logged, nodeEnv, request, handler, handlerWrote, finished, closed>>
    /\ UNCHANGED <<orchVars, svcVars, procVars, extVars>>

\* The watchdog's setTimeout callback runs: next(new TimeoutError(..)) unless
\* the headers are sent.
TimeoutFires ==
    /\ timer = "armed"
    /\ timer' = "fired"
    /\ IF ~headersSent
       THEN nextError(stages, TimeoutError({}))
       ELSE UNCHANGED <<stages, writes, headersSent, delegated>>
    /\ UNCHANGED <<logged, nodeEnv, request, handler, handlerWrote, finished, closed>>
    /\ UNCHANGED <<orchVars, svcVars, procVars, extVars>>

\* A clearTimeout that leaves the timer set.
clearTimeoutKeeps(t) == t

\* clearTimeout(timeout)
clearTimeout(t) == IF t = "armed" THEN "cleared" ELSE t

\* The request has entered the logging stage: requestLogger's listeners
\* are registered on the response.
LoggerListens(log) == \E k \in 1..Len(log) : log[k] = "requestLogger"

\* requestLogger's 'finish' listener: the completion event.
onFinish(log, events) ==
    IF LoggerListens(log) THEN Append(events, "completed") ELSE events

\* requestLogger's 'close' listener: the aborted event unless
\* res.writableEnded, which res.json sets when it ends the response.
onClose(log, writableEnded, events) ==
    IF LoggerListens(log) /\ ~writableEnded THEN Append(events, "aborted") ELSE events

\* res emits 'finish': the response has been handed to the connection.
ResponseFinishes ==
    /\ headersSent /\ ~finished /\ ~closed
    /\ finished' = TRUE
    /\ timer' = clearTimeout(timer)
    /\ logged' = onFinish(stages, logged)
    /\ UNCHANGED <<nodeEnv, request, stages, handler, handlerWrote,
                   headersSent, writes, closed, delegated>>
    /\ UNCHANGED <<orchVars, svcVars, procVars, extVars>>

\* The connection is gone (the client went away, the response is complete,
\* or the socket was destroyed).  A body parser that is waiting for the body
\* gets the request's 'aborted' event first and passes the reader's error
\* on, so errorHandler writes before the response is destroyed; then res
\* emits 'close'.
ConnectionCloses ==
    /\ handler # "notArrived" /\ ~closed
    /\ closed' = TRUE
    /\ timer' = clearTimeout(timer)
    /\ logged' = onClose(stages, headersSent, logged)
    /\ IF handler = "readingBody"
       THEN /\ nextError(stages, BodyReadError(request, TRUE))
            /\ handler' = "finished"
       ELSE UNCHANGED <<stages, handler, headersSent, writes, delegated>>
    /\ UNCHANGED <<nodeEnv, request, handlerWrote, finished>>
    /\ UNCHANGED <<orchVars, svcVars, procVars, extVars>>

\* ====================================================================
\* BaseService: the generic data access layer over one table
\* ====================================================================

\* The ids of the records of the table.
Ids == 1..MaxIds

\* A where clause / filters object: the id asked for (0: any) and the
\* deletedAt asked for ("any": not constrained, "null", "set").
Filters == [id : {0} \cup Ids, deletedAt : {"any", "null", "set"}]

\* The data of an update: what it writes to deletedAt ("keep": nothing).
UpdateData == {"keep", "null", "set"}

\* The persistence failures that do not depend on the table: the connection
\* is lost (PrismaClientUnknownRequestError), a foreign key is violated.
DbDown ==
    Thrown("PrismaClientUnknownRequestError", "PrismaClientUnknownRequestError",
           "", FALSE)
ReadFailures == {NoThrown, DbDown}
WriteFailures == {NoThrown, DbDown, PrismaError("P2003")}

\* error.code of a thrown value.
ErrorCode(error) == IF error.class = "AppError" THEN error.code ELSE error.errCode

\* The outcome of an operation: the failure of the client call (NoThrown:
\* none), the error the operation threw (NoThrown: it returned), and the ids
\* of the records it returned or counted.
Outcome(op, failure, error, ids) ==
    [op |-> op, failure |-> failure, error |-> error, ids |-> ids]
NoOutcome == Outcome("none", NoThrown, NoThrown, {})

\* handleDatabaseError(error, operation): NotFoundError for code P2025,
\* DatabaseError for anything else.
handleDatabaseError(error) ==
    IF ErrorCode(error) = "P2025"
    THEN NotFoundError({})
    ELSE DatabaseError({"originalError", "code"})

\* buildWhereClause without the deletedAt predicate.
buildWhereClauseNoTombstone(opts, filters) == filters

\* buildWhereClause(filters): under soft delete deletedAt: null is written
\* over whatever the filters say.
buildWhereClause(opts, filters) ==
    IF opts.enableSoftDelete
    THEN [filters EXCEPT !.deletedAt = "null"]
    ELSE filters

\* The records of table st a where clause selects.
Select(st, where) ==
    { id \in Ids :
        /\ st[id] # "absent"
        /\ where.id \in {0, id}
        /\ where.deletedAt = "null" => st[id] = "live"
        /\ where.deletedAt = "set" => st[id] = "deleted" }

\* getModel().findFirst({ where }): the results the call can have, null
\* ({}) when no record is selected and otherwise any one of the selected
\* records (no orderBy is given, the choice is the database's).
FindFirst(st, where) ==
    IF Select(st, where) = {} THEN {{}}
    ELSE {{id} : id \in Select(st, where)}

\* getModel().update({ where: { id }, data }): P2025 when there is no such
\* record.
Update(st, id, data) ==
    IF st[id] = "absent" THEN [failure |-> PrismaError("P2025"), store |-> st]
    ELSE [failure |-> NoThrown,
          store |-> [st EXCEPT ![id] = CASE data = "null" -> "live"
                                         [] data = "set" -> "deleted"
                                         [] OTHER -> st[id]]]

\* getModel().delete({ where: { id } }): P2025 when there is no such record.
Delete(st, id) ==
    IF st[id] = "absent" THEN [failure |-> PrismaError("P2025"), store |-> st]
    ELSE [failure |-> NoThrown, store |-> [st EXCEPT ![id] = "absent"]]

\* getModel().create({ data }): P2002 when the id is taken.
Create(st, id) ==
    IF st[id] # "absent" THEN [failure |-> PrismaError("P2002"), store |-> st]
    ELSE [failure |-> NoThrown, store |-> [st EXCEPT ![id] = "live"]]

\* A read operation: the client call fails with `failure`, or returns ids.
Read(op, failure, ids) ==
    /\ options.constructed
    /\ svcResult' = IF failure = NoThrown
                    THEN Outcome(op, NoThrown, NoThrown, ids)
                    ELSE Outcome(op, failure, handleDatabaseError(failure), {})
    /\ UNCHANGED <<options, store, tombstoned>>

\* A write operation whose client call had outcome w, unless the connection
\* failed with `failure` first.
Write(op, failure, w, id) ==
    /\ options.constructed
    /\ IF failure # NoThrown
       THEN /\ svcResult' = Outcome(op, failure, handleDatabaseError(failure), {})
            /\ UNCHANGED store
       ELSE IF w.failure # NoThrown
       THEN /\ svcResult' = Outcome(op, w.failure, handleDatabaseError(w.failure), {})
            /\ UNCHANGED store
       ELSE /\ svcResult' = Outcome(op, NoThrown, NoThrown, {id})
            /\ store' = w.store
    /\ UNCHANGED options

\* new BaseService(prisma, modelName, options): enableSoftDelete is false
\* unless the options say otherwise.
BaseService(opts) ==
    /\ ~options.constructed
    /\ options' = [constructed |-> TRUE,
                   enableSoftDelete |-> (opts = "softDelete")]
    /\ UNCHANGED <<store, svcResult, tombstoned>>
    /\ UNCHANGED <<orchVars, reqVars, procVars, extVars>>

\* findMany(filters)
findMany(filters, failure) ==
    /\ Read("findMany", failure, Select(store, buildWhereClause(options, filters)))
    /\ UNCHANGED <<orchVars, reqVars, procVars, extVars>>

\* findById(id)
findById(id, failure) ==
    /\ \E found \in FindFirst(store, buildWhereClause(options,
                                  [id |-> id, deletedAt |-> "any"])) :
          Read("findById", failure, found)
    /\ UNCHANGED <<orchVars, reqVars, procVars, extVars>>

\* findOne(filters)
findOne(filters, failure) ==
    /\ \E found \in FindFirst(store, buildWhereClause(options, filters)) :
          Read("findOne", failure, found)
    /\ UNCHANGED <<orchVars, reqVars, procVars, extVars>>

\* exists(filters): the records counted; the result is count > 0.
exists(filters, failure) ==
    /\ Read("exists", failure, Select(store, buildWhereClause(options, filters)))
    /\ UNCHANGED <<orchVars, reqVars, procVars, extVars>>

\* count(filters): the records counted.
count(filters, failure) ==
    /\ Read("count", failure, Select(store, buildWhereClause(options, filters)))
    /\ UNCHANGED <<orchVars, reqVars, procVars, extVars>>

\* create(data)
create(id, failure) ==
    /\ Write("create", failure, Create(store, id), id)
    /\ UNCHANGED tombstoned
    /\ UNCHANGED <<orchVars, reqVars, procVars, extVars>>

\* updateById(id, data): the update is by id alone, whatever deletedAt is.
updateById(id, data, failure) ==
    /\ Write("updateById", failure, Update(store, id, data), id)
    /\ UNCHANGED tombstoned
    /\ UNCHANGED <<orchVars, reqVars, procVars, extVars>>

\* softDelete(id): update deletedAt; a failure is translated by
\* handleDatabaseError and thrown to deleteById.
softDelete(st, id, failure) ==
    LET w == IF failure # NoThrown
             THEN [failure |-> failure, store |-> st]
             ELSE Update(st, id, "set")
    IN  [failure |-> w.failure,
         error |-> IF w.failure = NoThrown THEN NoThrown
                   ELSE handleDatabaseError(w.failure),
         store |-> w.store]

\* deleteById(id): under soft delete softDelete(id), whose error the catch
\* of deleteById translates once more; otherwise a delete.
deleteById(id, failure) ==
    /\ options.constructed
    /\ IF options.enableSoftDelete
       THEN LET s == softDelete(store, id, failure)
            IN  IF s.error # NoThrown
                THEN /\ svcResult' = Outcome("deleteById", s.failure,
                                             handleDatabaseError(s.error), {})
                     /\ UNCHANGED <<store, tombstoned>>
                ELSE /\ svcResult' = Outcome("deleteById", NoThrown, NoThrown, {id})
                     /\ store' = s.store
                     /\ tombstoned' = tombstoned \cup {id}
       ELSE /\ Write("deleteById", failure, Delete(store, id), id)
            /\ UNCHANGED tombstoned
    /\ UNCHANGED options
    /\ UNCHANGED <<orchVars, reqVars, procVars, extVars>>

\* The callbacks passed to transaction: one that writes nothing to the
\* table, one that creates a record (UserService.createUser:
\* tx.user.create) and one that deletes a record (UserService.deleteUser:
\* tx.user.delete).
TxCallbacks ==
    {[op |-> "none", id |-> 0]}
        \cup {[op |-> op, id |-> id] : op \in {"create", "delete"}, id \in Ids}

\* transaction(callback): prisma.$transaction runs the callback; when the
\* connection or another call of the callback fails with `failure`, or the
\* callback's write is refused, nothing is written and the error is
\* translated by handleDatabaseError; otherwise the callback's write is
\* committed.
transaction(callback, failure) ==
    /\ IF callback.op = "none"
       THEN Read("transaction", failure, {})
       ELSE /\ Write("transaction", failure,
                     IF callback.op = "create"
                     THEN Create(store, callback.id)
                     ELSE Delete(store, callback.id),
                     callback.id)
            /\ UNCHANGED tombstoned
    /\ UNCHANGED <<orchVars, reqVars, procVars, extVars>>

\* --------------------------------------------------------- specifications
\* ====================================================================
\* The process: bootstrap, serving, termination signals and exit
\* ====================================================================

\* The modules bootstrap() registers in this model.
BootModules ==
    { [name |-> "A", dependencies |-> <<>>, hasOnShutdown |-> TRUE],
      [name |-> "B", dependencies |-> <<"A">>, hasOnShutdown |-> TRUE],
      [name |-> "C", dependencies |-> <<>>, hasOnShutdown |-> FALSE] }

\* The signals spark installs a handler for; index.ts installs a second
\* handler for the first two.
ShutdownSignals == {"SIGTERM", "SIGINT", "SIGUSR2"}
IndexSignals == {"SIGTERM", "SIGINT"}

\* The number of a signal.
SignalNumber(signal) ==
    CASE signal = "SIGTERM" -> 15
      [] signal = "SIGINT" -> 2
      [] signal = "SIGUSR2" -> 12

NotExited == [exited |-> FALSE, code |-> 0, at |-> "none"]

\* process.exit(code) called at the place `at`.
ProcessExit(code, at) == [exited |-> TRUE, code |-> code, at |-> at]

\* A call of IgnitorApp.shutdown() by `by`, run up to its first await from
\* iteration i of the loop on: either the onShutdown of the next module that
\* has one is pending, or the loop is over and context.shutdown() is
\* pending.
ShutdownCall(by, i) ==
    LET j == nextHook(modules, i)
    IN  [by |-> by, pc |-> IF j = 0 THEN "context" ELSE "hook", pos |-> j]

\* this.app.listen(port) and the installation of the signal handlers: the
\* rest of spark and of bootstrap once the modules are initialized.  The
\* port is free: the server binds it.
Listen ==
    /\ phase' = "serving"
    /\ server' = "listening"

\* bootstrap: app.registerModule(..) before spark, each module object
\* once.
bootstrapRegister(module) ==
    /\ phase = "bootstrap" /\ ~exit.exited
    /\ Len(modules) < MaxModules
    /\ \A i \in 1..Len(modules) : modules[i] # module
    /\ modules' = Append(modules, module)
    /\ UNCHANGED callVars
    /\ UNCHANGED <<reqVars, svcVars, procVars, extVars>>

\* spark(port) up to its first await: context.initialize() is pending.
spark ==
    /\ phase = "bootstrap" /\ ~exit.exited
    /\ phase' = "contextInitializing"
    /\ UNCHANGED <<initCount, server, inflight, closeCallbacks, deadline,
                   calls, signals, exit>>
    /\ UNCHANGED <<orchVars, reqVars, svcVars, extVars>>

\* context.initialize() rejects: spark rethrows and bootstrap exits with 1.
ContextInitializeRejects ==
    /\ phase = "contextInitializing" /\ ~exit.exited
    /\ exit' = ProcessExit(1, "bootstrapCatch")
    /\ UNCHANGED <<phase, initCount, server, inflight, closeCallbacks,
                   deadline, calls, signals>>
    /\ UNCHANGED <<orchVars, reqVars, svcVars, extVars>>

\* context.initialize() resolves and initializeModules() runs up to its
\* first await: the sort throws and bootstrap exits with 1, or the first
\* module's initialize is pending, or there is no module and the server
\* starts.
ContextInitializeResolves ==
    /\ phase = "contextInitializing" /\ ~exit.exited
    /\ LET order == sortModulesByDependencies(modules)
       IN  IF order.err # NoError
           THEN /\ exit' = ProcessExit(1, "bootstrapCatch")
                /\ UNCHANGED <<phase, server>>
           ELSE IF Len(order.sorted) = 0
           THEN /\ Listen
                /\ UNCHANGED exit
           ELSE /\ phase' = "modulesInitializing"
                /\ UNCHANGED <<server, exit>>
    /\ UNCHANGED <<initCount, inflight, closeCallbacks, deadline, calls,
                   signals>>
    /\ UNCHANGED <<orchVars, reqVars, svcVars, extVars>>

\* The pending module.initialize(context) rejects: initializeModules throws
\* and bootstrap exits with 1.
SparkInitializeRejects ==
    /\ phase = "modulesInitializing" /\ ~exit.exited
    /\ exit' = ProcessExit(1, "bootstrapCatch")
    /\ UNCHANGED <<phase, initCount, server, inflight, closeCallbacks,
                   deadline, calls, signals>>
    /\ UNCHANGED <<orchVars, reqVars, svcVars, extVars>>

\* The pending module.initialize(context) resolves: the next module's
\* initialize is pending, or all are initialized and the server starts.
SparkInitializeResolves ==
    /\ phase = "modulesInitializing" /\ ~exit.exited
    /\ initCount' = initCount + 1
    /\ IF initCount + 1 < Len(modules)
       THEN UNCHANGED <<phase, server>>
       ELSE Listen
    /\ UNCHANGED <<inflight, closeCallbacks, deadline, calls, signals, exit>>
    /\ UNCHANGED <<orchVars, reqVars, svcVars, extVars>>

\* The server accepts a connection and starts handling its request.
RequestAccepted ==
    /\ server = "listening" /\ ~exit.exited
    /\ inflight < MaxInflight
    /\ inflight' = inflight + 1
    /\ UNCHANGED <<phase, initCount, server, closeCallbacks, deadline, calls,
                   signals, exit>>
    /\ UNCHANGED <<orchVars, reqVars, svcVars, extVars>>

\* A request is over and its connection is closed.
RequestCompleted ==
    /\ inflight > 0 /\ ~exit.exited
    /\ inflight' = inflight - 1
    /\ UNCHANGED <<phase, initCount, server, closeCallbacks, deadline, calls,
                   signals, exit>>
    /\ UNCHANGED <<orchVars, reqVars, svcVars, extVars>>

\* The signal handlers without the forced-shutdown timer.
SignalReceivedNoDeadline(signal) ==
    /\ ~exit.exited
    /\ signals < MaxSignals
    /\ signals' = signals + 1
    /\ IF phase # "serving"
       THEN /\ exit' = ProcessExit(128 + SignalNumber(signal), "killed")
            /\ UNCHANGED <<server, closeCallbacks, deadline, calls>>
       ELSE /\ server' = IF server = "listening" THEN "closing" ELSE server
            /\ closeCallbacks' = closeCallbacks + 1
            /\ UNCHANGED deadline
            /\ calls' = IF signal \in IndexSignals
                        THEN Append(calls, ShutdownCall("index", Len(modules)))
                        ELSE calls
            /\ UNCHANGED exit
    /\ UNCHANGED <<phase, initCount, inflight>>
    /\ UNCHANGED <<orchVars, reqVars, svcVars, extVars>>

\* The process receives a termination signal.  Before spark has installed
\* its handlers the signal ends the process.  Afterwards the handlers run
\* in the order they were installed: spark's calls server.close(callback),
\* which stops the server accepting, and sets the forced-shutdown timer;
\* for SIGTERM and SIGINT the handler of index.ts then calls app.shutdown(),
\* which runs up to its first await.
SignalReceived(signal) ==
    /\ ~exit.exited
    /\ signals < MaxSignals
    /\ signals' = signals + 1
    /\ IF phase # "serving"
       THEN /\ exit' = ProcessExit(128 + SignalNumber(signal), "killed")
            /\ UNCHANGED <<server, closeCallbacks, deadline, calls>>
       ELSE /\ server' = IF server = "listening" THEN "closing" ELSE server
            /\ closeCallbacks' = closeCallbacks + 1
            /\ deadline' = TRUE
            /\ calls' = IF signal \in IndexSignals
                        THEN Append(calls, ShutdownCall("index", Len(modules)))
                        ELSE calls
            /\ UNCHANGED exit
    /\ UNCHANGED <<phase, initCount, inflight>>
    /\ UNCHANGED <<orchVars, reqVars, svcVars, extVars>>

\* The server emits 'close' once server.close() was called and no
\* connection is left: every callback given to server.close() calls
\* this.shutdown(), which runs up to its first await.
ServerClosed ==
    /\ ~exit.exited
    /\ server \in {"closing", "closed"}
    /\ inflight = 0
    /\ closeCallbacks > 0
    /\ server' = "closed"
    /\ calls' = calls \o [k \in 1..closeCallbacks |->
                            ShutdownCall("spark", Len(modules))]
    /\ closeCallbacks' = 0
    /\ UNCHANGED <<phase, initCount, inflight, deadline, signals, exit>>
    /\ UNCHANGED <<orchVars, reqVars, svcVars, extVars>>

\* The pending onShutdown of call c resolves and the loop goes on.
HookResolves(c) ==
    /\ ~exit.exited
    /\ c \in 1..Len(calls) /\ calls[c].pc = "hook"
    /\ calls' = [calls EXCEPT ![c] =
                    ShutdownCall(calls[c].by, calls[c].pos - 1)]
    /\ UNCHANGED <<phase, initCount, server, inflight, closeCallbacks,
                   deadline, signals, exit>>
    /\ UNCHANGED <<orchVars, reqVars, svcVars, extVars>>

\* The pending onShutdown of call c rejects: the error is caught and
\* logged, and the loop goes on as after a hook that resolved.
HookRejects(c) ==
    /\ ~exit.exited
    /\ c \in 1..Len(calls) /\ calls[c].pc = "hook"
    /\ calls' = [calls EXCEPT ![c] =
                    ShutdownCall(calls[c].by, calls[c].pos - 1)]
    /\ UNCHANGED <<phase, initCount, server, inflight, closeCallbacks,
                   deadline, signals, exit>>
    /\ UNCHANGED <<orchVars, reqVars, svcVars, extVars>>

\* The pending context.shutdown() of call c resolves: shutdown() resolves
\* and its caller exits with 0.
DisconnectResolves(c) ==
    /\ ~exit.exited
    /\ c \in 1..Len(calls) /\ calls[c].pc = "context"
    /\ calls' = [calls EXCEPT ![c].pc = "done"]
    /\ exit' = ProcessExit(0, "shutdownResolved")
    /\ UNCHANGED <<phase, initCount, server, inflight, closeCallbacks,
                   deadline, signals>>
    /\ UNCHANGED <<orchVars, reqVars, svcVars, extVars>>

\* The caller of shutdown() exiting with 0 from its catch block.
DisconnectRejectsExitsZero(c) ==
    /\ ~exit.exited
    /\ c \in 1..Len(calls) /\ calls[c].pc = "context"
    /\ calls' = [calls EXCEPT ![c].pc = "rejected"]
    /\ exit' = ProcessExit(0, "shutdownCatch")
    /\ UNCHANGED <<phase, initCount, server, inflight, closeCallbacks,
                   deadline, signals>>
    /\ UNCHANGED <<orchVars, reqVars, svcVars, extVars>>

\* The pending context.shutdown() of call c rejects: shutdown() rejects and
\* its caller exits with 1 from its catch block.
DisconnectRejects(c) ==
    /\ ~exit.exited
    /\ c \in 1..Len(calls) /\ calls[c].pc = "context"
    /\ calls' = [calls EXCEPT ![c].pc = "rejected"]
    /\ exit' = ProcessExit(1, "shutdownCatch")
    /\ UNCHANGED <<phase, initCount, server, inflight, closeCallbacks,
                   deadline, signals>>
    /\ UNCHANGED <<orchVars, reqVars, svcVars, extVars>>

\* The forced-shutdown timer runs out: process.exit(1).
DeadlineFires ==
    /\ ~exit.exited
    /\ deadline
    /\ exit' = ProcessExit(1, "deadline")
    /\ UNCHANGED <<phase, initCount, server, inflight, closeCallbacks,
                   deadline, calls, signals>>
    /\ UNCHANGED <<orchVars, reqVars, svcVars, extVars>>

\* ====================================================================
\* Pagination (BaseController and BaseService.findMany)
\* ====================================================================

\* The values of the page and limit query parameters after parseInt: NaN
\* for a missing or non-numeric parameter, or an integer.
QueryNumbers ==
    {[nan |-> TRUE, n |-> 0]}
        \cup {[nan |-> FALSE, n |-> k] : k \in {-1, 0, 1, 2, 3, 10, 100, 101}}

\* parseInt(..) || fallback: NaN and 0 are falsy.
OrDefault(q, fallback) == IF q.nan \/ q.n = 0 THEN fallback ELSE q.n

MathMax(a, b) == IF a >= b THEN a ELSE b
MathMin(a, b) == IF a <= b THEN a ELSE b

\* Math.floor(total / limit): the envelope computed by rounding down.
MathFloor(total, limit) == total \div limit

\* Math.ceil(total / limit) for total >= 0 and limit >= 1.
MathCeil(total, limit) ==
    IF total % limit = 0 THEN total \div limit ELSE (total \div limit) + 1

\* BaseController.extractPaginationParams.
extractPaginationParams(queryPage, queryLimit) ==
    LET page == MathMax(1, OrDefault(queryPage, 1))
        limit == MathMin(100, MathMax(1, OrDefault(queryLimit, 10)))
    IN  [page |-> page, limit |-> limit, offset |-> (page - 1) * limit]

\* The pagination options the controllers hand on.
PaginationOptions ==
    {extractPaginationParams(p, l) : p \in QueryNumbers, l \in QueryNumbers}

\* The envelope of page, limit and total.
Envelope(by, page, limit, total) ==
    LET totalPages == MathCeil(total, limit)
    IN  [by |-> by, page |-> page, limit |-> limit, total |-> total,
         totalPages |-> totalPages,
         hasNext |-> page < totalPages,
         hasPrevious |-> page > 1]

NoEnvelope ==
    [by |-> "none", page |-> 0, limit |-> 0, total |-> 0, totalPages |-> 0,
     hasNext |-> FALSE, hasPrevious |-> FALSE]

\* BaseController.calculatePagination(page, limit, total).
calculatePagination(page, limit, total) ==
    /\ paginated' = Envelope("calculatePagination", page, limit, total)
    /\ UNCHANGED <<orchVars, reqVars, svcVars, procVars, valVars, corrVars, authVars, acctVars>>

\* BaseService.findMany with pagination, the count query answering total.
findManyPaginated(pagination, total) ==
    /\ paginated' = Envelope("findMany", pagination.page, pagination.limit, total)
    /\ UNCHANGED <<orchVars, reqVars, svcVars, procVars, valVars, corrVars, authVars, acctVars>>

\* ====================================================================
\* Request validation (middleware/validation.ts)
\* ====================================================================

\* The parts of a request validateRequest can hold a schema for, in the
\* order it validates them.
Parts == <<"body", "query", "params">>

\* The fields of a part's schema in this model.
Fields == {"email", "password"}

\* A part of a request as its schema sees it: for each field, the number of
\* the field's checks the value fails (passwordSchema chains six checks,
\* and a value can fail several of them).
PartValues == [Fields -> 0..MaxChecks]

\* A request: a value for each part.
ValidatedRequest(b, q, p) == [body |-> b, query |-> q, params |-> p]

\* The schemas validateRequest is given: the parts that have one.
Schemas == SUBSET {"body", "query", "params"}

\* schema.parse(value): the issues of a ZodError, one for each failed check
\* of each field, or none when the value is valid.
ZodIssues(part, value) ==
    {i \in [part : {part}, path : Fields, check : 1..MaxChecks] :
        i.check <= value[i.path]}

\* The try block of validateRequest from part k on: the first part with a
\* schema whose parse throws ends it, and its issues are those of that
\* part alone.
RECURSIVE FirstInvalid(_, _, _)
FirstInvalid(schema, req, k) ==
    IF k > Len(Parts) THEN {}
    ELSE IF Parts[k] \in schema /\ ZodIssues(Parts[k], req[Parts[k]]) # {}
    THEN ZodIssues(Parts[k], req[Parts[k]])
    ELSE FirstInvalid(schema, req, k + 1)

NotValidated ==
    [ran |-> FALSE, schema |-> {},
     req |-> ValidatedRequest([f \in Fields |-> 0], [f \in Fields |-> 0],
                              [f \in Fields |-> 0]),
     issues |-> {}, passed |-> FALSE, statusCode |-> 0, code |-> "",
     handlerInvoked |-> FALSE]

\* validateRequest(schema)(req, res, next) on a route whose next stage is
\* the handler: next() when every part parses, and otherwise
\* next(new ValidationError(.., {issues, invalidFields})), which the error
\* handler answers.
Validated(schema, req) ==
    LET issues == FirstInvalid(schema, req, 1)
        answer == ErrorResponse(normalizeError(
                     ValidationError({"issues", "invalidFields"})))
    IN  [ran |-> TRUE, schema |-> schema, req |-> req, issues |-> issues,
         passed |-> issues = {},
         statusCode |-> IF issues = {} THEN 0 ELSE answer.statusCode,
         code |-> IF issues = {} THEN "" ELSE answer.code,
         handlerInvoked |-> FALSE]

\* A request reaches a route guarded by validateRequest(schema).
validateRequest ==
    /\ ~validation.ran
    /\ \E schema \in Schemas, b \in PartValues, q \in PartValues,
          p \in PartValues :
            validation' = Validated(schema, ValidatedRequest(b, q, p))
    /\ UNCHANGED <<orchVars, reqVars, svcVars, procVars, pageVars, corrVars, authVars, acctVars>>

\* The route handler, the stage after validateRequest, is entered.
ValidatedHandlerRuns ==
    /\ validation.ran /\ validation.passed
    /\ ~validation.handlerInvoked
    /\ validation' = [validation EXCEPT !.handlerInvoked = TRUE]
    /\ UNCHANGED <<orchVars, reqVars, svcVars, procVars, pageVars, corrVars, authVars, acctVars>>

\* ====================================================================
\* Correlation ids (middleware/requestId, requestLogger, the envelopes)
\* ====================================================================

\* An inbound header: absent, or present with a value, which may be empty.
AbsentHeader == [present |-> FALSE, value |-> ""]
HeaderValues ==
    {AbsentHeader} \cup {[present |-> TRUE, value |-> v] : v \in {"", "abc", "xyz"}}

\* The ids uuidv4() and crypto.randomUUID() generate: fresh values, that of
\* the one never equal to that of the other.
uuidv4 == "uuid-1"
randomUUID == "uuid-2"

\* a || b of two header lookups: undefined and '' are falsy.
HeaderOr(a, b) == IF a.present /\ a.value # "" THEN a ELSE b

NoCorrelation ==
    [stage |-> "none", xRequestId |-> AbsentHeader, xCorrelationId |-> AbsentHeader,
     id |-> "", header |-> "", envelope |-> "", answeredBy |-> "none"]

\* requestId()(req, res, next): the first stage of every request.
requestId(xRequestId, xCorrelationId) ==
    /\ correlation.stage = "none"
    /\ LET existingId == HeaderOr(xRequestId, xCorrelationId)
           id == IF existingId.present THEN existingId.value ELSE uuidv4
       IN  correlation' =
              [correlation EXCEPT !.stage = "requestId",
                                  !.xRequestId = xRequestId,
                                  !.xCorrelationId = xCorrelationId,
                                  !.id = id,
                                  !.header = id]
    /\ UNCHANGED <<orchVars, reqVars, svcVars, procVars, pageVars, valVars, authVars, acctVars>>

\* requestLogger()(req, res, next): req.id = req.id || crypto.randomUUID().
requestLogger ==
    /\ correlation.stage = "requestId"
    /\ correlation' =
          [correlation EXCEPT !.stage = "requestLogger",
                              !.id = IF correlation.id # "" THEN correlation.id
                                     ELSE randomUUID]
    /\ UNCHANGED <<orchVars, reqVars, svcVars, procVars, pageVars, valVars, authVars, acctVars>>

\* BaseController.sendResponse by a route handler, which runs after the
\* logging stage: meta.requestId is req.id.
sendResponse ==
    /\ correlation.stage = "requestLogger"
    /\ correlation' =
          [correlation EXCEPT !.stage = "answered",
                              !.envelope = correlation.id,
                              !.answeredBy = "sendResponse"]
    /\ UNCHANGED <<orchVars, reqVars, svcVars, procVars, pageVars, valVars, authVars, acctVars>>

\* errorHandler answering an error passed on by a stage before or after the
\* logging stage: error.requestId is req.id || 'unknown'.
errorHandlerEnvelope ==
    /\ correlation.stage \in {"requestId", "requestLogger"}
    /\ correlation' =
          [correlation EXCEPT !.stage = "answered",
                              !.envelope = IF correlation.id # "" THEN correlation.id
                                           ELSE "unknown",
                              !.answeredBy = "errorHandler"]
    /\ UNCHANGED <<orchVars, reqVars, svcVars, procVars, pageVars, valVars, authVars, acctVars>>

\* The requestId of an answer that has no envelope.
NoRequestId == "<no envelope>"

\* BaseController.sendNoContentResponse by a route handler (DELETE /:id of
\* the users router): 204 with an empty body, so no envelope.
sendNoContentResponse ==
    /\ correlation.stage = "requestLogger"
    /\ correlation' =
          [correlation EXCEPT !.stage = "answered",
                              !.envelope = NoRequestId,
                              !.answeredBy = "sendNoContentResponse"]
    /\ UNCHANGED <<orchVars, reqVars, svcVars, procVars, pageVars, valVars, authVars, acctVars>>

\* The handler of GET /health answers res.status(200).json(healthData):
\* the health data is no envelope and has no requestId.
healthCheck ==
    /\ correlation.stage = "requestLogger"
    /\ correlation' =
          [correlation EXCEPT !.stage = "answered",
                              !.envelope = NoRequestId,
                              !.answeredBy = "healthCheck"]
    /\ UNCHANGED <<orchVars, reqVars, svcVars, procVars, pageVars, valVars, authVars, acctVars>>

\* ====================================================================
\* Authentication and authorization of the admin routes
\* ====================================================================

AuthorizationError(details) ==
    NewAppError("AuthorizationError", HTTPStatusCode("FORBIDDEN"),
                "AUTHORIZATION_ERROR", details)

\* The admin-only routes of AuthRoutes, each with the stages the router
\* runs for it, in order.
AdminRoutes ==
    [path : {"GET /users", "GET /stats"},
     chain : {<<"authenticate", "authorize", "handler">>}]
    \cup
    [path : {"PUT /users/:userId/role"},
     chain : {<<"authenticate", "authorize", "validateRequest", "handler">>}]

\* The role claims a token can carry; "none" for a payload without one.
Roles == {"admin", "user", "moderator", "none"}

\* A token: whether its signature verifies against the secret, whether it
\* has expired, and its role claim.
Tokens == [signed : BOOLEAN, expired : BOOLEAN, role : Roles]
EmptyToken == [signed |-> FALSE, expired |-> FALSE, role |-> "none"]

\* The Authorization header of a request: absent or empty ("none"), the
\* scheme alone ("Bearer " or an empty token), or a token, with or without
\* the Bearer prefix.
Authorizations ==
    [kind : {"none", "noToken"}, token : {EmptyToken}]
        \cup [kind : {"bearer", "bare"}, token : Tokens]

\* jwt.verify(token, secret): the payload, or the error it throws.
JwtVerify(token) ==
    IF ~token.signed THEN Thrown("Error", "JsonWebTokenError", "", FALSE)
    ELSE IF token.expired THEN Thrown("Error", "TokenExpiredError", "", FALSE)
    ELSE NoThrown

\* authenticate(req, res, next): the error it throws or passes on, or
\* NoThrown when it calls next() with req.userRole set.
authenticateOutcome(authorization, secret) ==
    IF authorization.kind \in {"none", "noToken"}
    THEN AuthenticationError({})
    ELSE IF secret = "unset"
    THEN Thrown("Error", "Error", "", FALSE)
    ELSE IF JwtVerify(authorization.token) # NoThrown
    THEN AuthenticationError({})
    ELSE NoThrown

\* authorize without its test of the role against the roles allowed.
authorizeOutcomeAnyRole(roles, userRole) ==
    IF userRole = "none" THEN AuthenticationError({}) ELSE NoThrown

\* authorize(...roles)(req, res, next): the error it throws, or NoThrown
\* when it calls next().
authorizeOutcome(roles, userRole) ==
    IF userRole = "none" THEN AuthenticationError({})
    ELSE IF userRole \notin roles THEN AuthorizationError({})
    ELSE NoThrown

NoAdminRequest ==
    [route |-> [path |-> "", chain |-> <<>>],
     authorization |-> [kind |-> "none", token |-> EmptyToken],
     valid |-> TRUE, at |-> 0, userRole |-> "none", statusCode |-> 0,
     code |-> "", handlerInvoked |-> FALSE]

\* The error handler's answer to the error a stage of the route passed on.
AdminAnswer(req, err) ==
    [req EXCEPT !.at = 0,
                !.statusCode = normalizeError(err).statusCode,
                !.code = normalizeError(err).code]

\* The stage of the route the request is at.
AdminStage == IF adminRequest.at = 0 THEN "none"
              ELSE adminRequest.route.chain[adminRequest.at]

\* dotenv.config() and the config object: JWT_SECRET is set or not.
loadConfig(secret) ==
    /\ jwtSecret = "notLoaded"
    /\ jwtSecret' = secret
    /\ UNCHANGED adminRequest
    /\ UNCHANGED <<orchVars, reqVars, svcVars, procVars, pageVars, valVars, corrVars, acctVars>>

\* A request for an admin route arrives at the route's first stage; valid
\* tells whether its params and body satisfy the route's schemas.  The
\* routes are mounted by AuthModule's initialize, which rejects (and with it
\* spark, so that no server listens) unless config.security.jwt.secret is
\* set.
AdminRequestArrives(route, authorization, valid) ==
    /\ jwtSecret = "defined"
    /\ adminRequest = NoAdminRequest
    /\ adminRequest' = [NoAdminRequest EXCEPT !.route = route,
                                              !.authorization = authorization,
                                              !.valid = valid,
                                              !.at = 1]
    /\ UNCHANGED jwtSecret
    /\ UNCHANGED <<orchVars, reqVars, svcVars, procVars, pageVars, valVars, corrVars, acctVars>>

\* The authenticate stage runs.
authenticate ==
    /\ AdminStage = "authenticate"
    /\ LET err == authenticateOutcome(adminRequest.authorization, jwtSecret)
       IN  adminRequest' =
              IF err # NoThrown THEN AdminAnswer(adminRequest, err)
              ELSE [adminRequest EXCEPT
                        !.at = @ + 1,
                        !.userRole = adminRequest.authorization.token.role]
    /\ UNCHANGED jwtSecret
    /\ UNCHANGED <<orchVars, reqVars, svcVars, procVars, pageVars, valVars, corrVars, acctVars>>

\* The authorize('admin') stage runs.
authorize ==
    /\ AdminStage = "authorize"
    /\ LET err == authorizeOutcome({"admin"}, adminRequest.userRole)
       IN  adminRequest' =
              IF err # NoThrown THEN AdminAnswer(adminRequest, err)
              ELSE [adminRequest EXCEPT !.at = @ + 1]
    /\ UNCHANGED jwtSecret
    /\ UNCHANGED <<orchVars, reqVars, svcVars, procVars, pageVars, valVars, corrVars, acctVars>>

\* The validateRequest stage of the role-update route runs.
validateAdminRequest ==
    /\ AdminStage = "validateRequest"
    /\ adminRequest' =
          IF ~adminRequest.valid
          THEN AdminAnswer(adminRequest,
                           ValidationError({"issues", "invalidFields"}))
          ELSE [adminRequest EXCEPT !.at = @ + 1]
    /\ UNCHANGED jwtSecret
    /\ UNCHANGED <<orchVars, reqVars, svcVars, procVars, pageVars, valVars, corrVars, acctVars>>

\* The route handler is invoked.
adminHandler ==
    /\ AdminStage = "handler"
    /\ ~adminRequest.handlerInvoked
    /\ adminRequest' = [adminRequest EXCEPT !.handlerInvoked = TRUE]
    /\ UNCHANGED jwtSecret
    /\ UNCHANGED <<orchVars, reqVars, svcVars, procVars, pageVars, valVars, corrVars, acctVars>>

\* ====================================================================
\* AuthService and UserService: registration, login, token refresh, role
\* updates, user updates and deletions over the users table
\* ====================================================================

\* The email addresses of this model; the second is DEFAULT_ADMIN_EMAIL.
Emails == {"a@example.com", "admin@example.com"}

\* No email in the data of an update.
NoEmail == ""

\* The roles roleSchema and validRoles accept.
ValidRoles == {"user", "admin", "moderator"}

\* The values of the enum "Role", the type of the column users.role.
RoleEnum == {"user", "admin"}

\* The values of the enum "Status", the type of the column users.status
\* since the migration 20250905224515.
StatusEnum == {"active", "inactive"}

\* The decimal digits, and the text of the numbers 0..9.
Digits == {"0", "1", "2", "3", "4", "5", "6", "7", "8", "9"}
NumChar(n) == <<"0", "1", "2", "3", "4", "5", "6", "7", "8", "9">>[n + 1]

\* gen_random_uuid() for the n-th row of the table: a text, here the
\* sequence of its first characters, that no other row has; it starts
\* with a digit or with a letter.
gen_random_uuid(n) ==
    IF n % 2 = 1 THEN <<NumChar(n), "f", "0", "c">>
    ELSE <<"a", NumChar(n), "1", "b">>

\* No id, and the NaN of parseInt: no digits.
NaN == <<>>

\* parseInt(text): the number the leading decimal digits of the text
\* spell, here as the sequence of those digits, NaN when the text starts
\* with none.
RECURSIVE parseInt(_)
parseInt(text) ==
    IF text = <<>> \/ Head(text) \notin Digits THEN NaN
    ELSE <<Head(text)>> \o parseInt(Tail(text))

\* The columns of the table users, and those that are NOT NULL and have no
\* DEFAULT: a row cannot be inserted without a value for each of them.
Columns ==
    {"id", "email", "first_name", "last_name", "role", "status", "password",
     "bio", "instagram", "avatar", "is_email_verified", "stripe_customer_id",
     "reward_full_affiliate_id", "isDeleted", "createdAt", "updatedAt"}
RequiredColumns == {"email", "first_name", "last_name", "updatedAt"}

\* The data of a create or an update: the fields it holds and the values of
\* the two this model follows (NoEmail, "": not in the data).
Data(email, role, fields) == [email |-> email, role |-> role, fields |-> fields]

\* prepareCreateData and prepareUpdateData with enableAuditFields: the
\* fields of the data with the timestamps added.
prepareCreateData(fields) == fields \cup {"createdAt", "updatedAt"}
prepareUpdateData(fields) == fields \cup {"updatedAt"}

\* The data is refused before any row is touched: a field that is no
\* column, or a role that is no value of the enum.
Refused(data) ==
    \/ ~(data.fields \subseteq Columns)
    \/ "role" \in data.fields /\ data.role \notin RoleEnum

\* A row of the users table: its id (a UUID), its email, its role, its
\* status and the caller whose operation wrote that role ("database": the
\* row was in the table when the process started, "public": POST
\* /register, "seed": createDefaultAdmin, "adminRoute": PUT
\* /users/:userId/role).
UserRow(id, email, role, status, by) ==
    [id |-> id, email |-> email, role |-> role, status |-> status, by |-> by]

\* The rows of a table with an email, and those whose id is the number a
\* where clause { id } gives: the text of the id is that of the number.
ByEmail(table, email) == {u \in table : u.email = email}
ById(table, id) == {u \in table : u.id = id}

\* prisma.user.findFirst({ where }) over the rows the where clause selects:
\* null ({}) when there is none, otherwise one of them.
UserFindFirst(rows) == IF rows = {} THEN {{}} ELSE {{u} : u \in rows}

\* The error of the Prisma client for data that does not fit the schema.
PrismaValidationError ==
    Thrown("PrismaClientValidationError", "PrismaClientValidationError", "", FALSE)

\* prisma.user.create without the test for the required columns.
UserCreateNoRequired(table, id, data, by) ==
    IF Refused(data)
    THEN [failure |-> PrismaValidationError, table |-> table]
    ELSE IF ByEmail(table, data.email) # {}
    THEN [failure |-> PrismaError("P2002"), table |-> table]
    ELSE [failure |-> NoThrown,
          table |-> table \cup
                      {UserRow(id, data.email,
                               IF "role" \in data.fields THEN data.role
                               ELSE "user",
                               "active", by)}]

\* prisma.user.create({ data }): refused when the data holds a field that
\* is no column, lacks a required column or has a role that is no value of
\* the enum; P2002 under the unique index users_email_key when a row with
\* the email exists; otherwise the row is inserted with a fresh id, the
\* default status and, for data without a role, the default role.
UserCreate(table, id, data, by) ==
    IF Refused(data) \/ ~(RequiredColumns \subseteq data.fields)
    THEN [failure |-> PrismaValidationError, table |-> table]
    ELSE IF ByEmail(table, data.email) # {}
    THEN [failure |-> PrismaError("P2002"), table |-> table]
    ELSE [failure |-> NoThrown,
          table |-> table \cup
                      {UserRow(id, data.email,
                               IF "role" \in data.fields THEN data.role
                               ELSE "user",
                               "active", by)}]

\* prisma.user.update({ where: { id }, data }): refused when the data holds
\* a field that is no column or a role that is no value of the enum; P2025
\* when no row has the id; P2002 when another row holds the email of the
\* data; otherwise the row is rewritten.
UserUpdate(table, id, data, by) ==
    IF Refused(data)
    THEN [failure |-> PrismaValidationError, table |-> table]
    ELSE IF ById(table, id) = {}
    THEN [failure |-> PrismaError("P2025"), table |-> table]
    ELSE IF "email" \in data.fields
            /\ \E u \in ByEmail(table, data.email) : u.id # id
    THEN [failure |-> PrismaError("P2002"), table |-> table]
    ELSE [failure |-> NoThrown,
          table |-> {IF u.id # id THEN u
                     ELSE UserRow(id,
                                  IF "email" \in data.fields THEN data.email
                                  ELSE u.email,
                                  IF "role" \in data.fields THEN data.role
                                  ELSE u.role,
                                  u.status,
                                  IF "role" \in data.fields THEN by
                                  ELSE u.by) : u \in table}]

\* tx.user.delete({ where: { id } }): P2025 when no row has the id.
UserDelete(table, id) ==
    IF ById(table, id) = {}
    THEN [failure |-> PrismaError("P2025"), table |-> table]
    ELSE [failure |-> NoThrown, table |-> table \ ById(table, id)]

\* The try/catch of BaseService.create, updateById and transaction around
\* a write: the error thrown (NoThrown: it returned) and the table
\* afterwards.
BaseWrite(w) ==
    [error |-> IF w.failure = NoThrown THEN NoThrown
               ELSE handleDatabaseError(w.failure),
     table |-> w.table]

\* BaseService.create(data).
BaseCreate(table, id, data, by) ==
    BaseWrite(UserCreate(table, id,
                         Data(data.email, data.role,
                              prepareCreateData(data.fields)), by))

\* BaseService.updateById(id, data).
BaseUpdateById(table, id, data, by) ==
    BaseWrite(UserUpdate(table, id,
                         Data(data.email, data.role,
                              prepareUpdateData(data.fields)), by))

\* The data AuthService.register passes to this.create: email, password,
\* name and role; a name that is undefined is no field of the data.
RegisterData(email, role, name) ==
    Data(email, role,
         {"email", "password", "role"} \cup (IF name THEN {"name"} ELSE {}))

\* The data of a call's this.updateById: { role } of updateUserRole, the
\* body (email, name, each optional) of updateUser.
CallData(call) ==
    Data(call.email, call.role,
         (IF call.email # NoEmail THEN {"email"} ELSE {})
            \cup (IF call.role # "" THEN {"role"} ELSE {})
            \cup (IF call.name THEN {"name"} ELSE {}))

\* The ids of the requests of this model: the number 1, whose text passes
\* the test ^\d+$ of the params schemas and which parseInt of the
\* controllers returns (the first row's UUID starts with that digit).
UserIds == {parseInt(<<NumChar(n)>>) : n \in 1..1}

\* The tables the database can hold when the process starts: a user or
\* none, and an admin with DEFAULT_ADMIN_EMAIL or none, each of any status.
InitialTables ==
    {t \in SUBSET ({UserRow(gen_random_uuid(1), "a@example.com", "user",
                             status, "database") : status \in StatusEnum}
                      \cup {UserRow(gen_random_uuid(2), "admin@example.com",
                                    "admin", status, "database") :
                                status \in StatusEnum}) :
        \A u, v \in t : u.id = v.id => u = v}

\* A call of AuthService.register: the caller, the input (email, role and
\* whether it has a name), where the call stands ("findOne": awaiting
\* this.findOne, "create": past the check and the hash, awaiting
\* this.create, "done", "failed"), the error it threw, whether it created
\* the user and the id of the user it created.
RegisterCall(by, email, role, name) ==
    [by |-> by, email |-> email, role |-> role, name |-> name,
     pc |-> "findOne", error |-> NoThrown, created |-> FALSE, id |-> NaN]

\* A call of AuthService.login, refreshToken or updateUserRole, or of
\* UserService.updateUser or deleteUser: the operation, the id, email and
\* role it works with, whether its data has a name, the await it stands at
\* ("findById", "findOne", "verifyPassword", "updateById", "transaction",
\* or "done", "failed") and the error it threw.
Call(op, id, email, role, name, at, error) ==
    [op |-> op, id |-> id, email |-> email, role |-> role, name |-> name,
     pc |-> at, error |-> error]

\* generateAuthResponse(user): the id (user.id.toString()) and the role of the token's payload,
\* and the route that returned the token.
Token(id, role, via) == [id |-> id, role |-> role, via |-> via]

\* AuthModule.createDefaultAdmin during the module's initialize, before the
\* server accepts a request: when no admin exists, register the default
\* admin (firstName and lastName are no input of register, which passes on
\* email, password, an undefined name and the role); the response of
\* register (and its token) is dropped, and an error, the ConflictError
\* for a taken email among them, is logged and swallowed.
createDefaultAdmin ==
    /\ ~seeded /\ registers = <<>> /\ userCalls = <<>>
    /\ seeded' = TRUE
    /\ IF \/ \E u \in users : u.role = "admin"
          \/ ByEmail(users, "admin@example.com") # {}
       THEN UNCHANGED <<users, nextId>>
       ELSE /\ users' = BaseCreate(users, gen_random_uuid(nextId),
                                   RegisterData("admin@example.com", "admin",
                                                FALSE),
                                   "seed").table
            /\ nextId' = IF users' # users THEN nextId + 1 ELSE nextId
    /\ UNCHANGED <<registers, userCalls, tokens>>
    /\ UNCHANGED <<orchVars, reqVars, svcVars, procVars, pageVars, valVars, corrVars, authVars>>

\* POST /register: the body passed AuthValidation.register, whose role is
\* any of roleSchema's and 'user' by default and whose name is optional;
\* AuthService.register runs up to its first await.
register(email, role, name) ==
    /\ Len(registers) < MaxRegisters
    /\ Len(registers) + Len(userCalls) < MaxCalls
    /\ registers' = Append(registers, RegisterCall("public", email, role, name))
    /\ UNCHANGED <<users, nextId, userCalls, tokens, seeded>>
    /\ UNCHANGED <<orchVars, reqVars, svcVars, procVars, pageVars, valVars, corrVars, authVars>>

\* this.findOne({ email }) of call c resolves: ConflictError when the user
\* exists; otherwise the role is checked and the password hashed, and
\* this.create is awaited.
RegisterFindOneResolves(c) ==
    /\ c \in 1..Len(registers) /\ registers[c].pc = "findOne"
    /\ registers' =
          [registers EXCEPT ![c] =
              IF ByEmail(users, registers[c].email) # {}
              THEN [@ EXCEPT !.pc = "failed", !.error = ConflictError({})]
              ELSE IF registers[c].role \notin ValidRoles
              THEN [@ EXCEPT !.pc = "failed", !.error = AuthenticationError({})]
              ELSE [@ EXCEPT !.pc = "create"]]
    /\ UNCHANGED <<users, nextId, userCalls, tokens, seeded>>
    /\ UNCHANGED <<orchVars, reqVars, svcVars, procVars, pageVars, valVars, corrVars, authVars>>

\* this.create(..) of call c settles: the error BaseService.create throws,
\* or the user is created and a token with the user's role is returned.
RegisterCreateResolves(c) ==
    /\ c \in 1..Len(registers) /\ registers[c].pc = "create"
    /\ LET w == BaseCreate(users, gen_random_uuid(nextId),
                           RegisterData(registers[c].email, registers[c].role,
                                        registers[c].name),
                           registers[c].by)
       IN  IF w.error # NoThrown
           THEN /\ registers' = [registers EXCEPT ![c].pc = "failed",
                                                  ![c].error = w.error]
                /\ UNCHANGED <<users, nextId, tokens>>
           ELSE /\ registers' = [registers EXCEPT ![c].pc = "done",
                                                  ![c].created = TRUE,
                                                  ![c].id = gen_random_uuid(nextId)]
                /\ users' = w.table
                /\ nextId' = nextId + 1
                /\ tokens' = tokens \cup
                                {Token(gen_random_uuid(nextId),
                                       registers[c].role, "register")}
    /\ UNCHANGED <<userCalls, seeded>>
    /\ UNCHANGED <<orchVars, reqVars, svcVars, procVars, pageVars, valVars, corrVars, authVars>>

\* A call starts and runs up to its first await, or to its throw.
Starts(op, id, email, role, name, at, error) ==
    /\ Len(registers) + Len(userCalls) < MaxCalls
    /\ userCalls' = Append(userCalls,
                           Call(op, id, email, role, name, at, error))
    /\ UNCHANGED <<users, nextId, registers, tokens, seeded>>
    /\ UNCHANGED <<orchVars, reqVars, svcVars, procVars, pageVars, valVars, corrVars, authVars>>

\* Call c goes on to its next await, or ends with an error.
Continues(c, at, error) ==
    /\ userCalls' = [userCalls EXCEPT ![c].pc = at, ![c].error = error]
    /\ UNCHANGED <<users, nextId, registers, tokens, seeded>>
    /\ UNCHANGED <<orchVars, reqVars, svcVars, procVars, pageVars, valVars, corrVars, authVars>>

\* POST /login: AuthService.login awaits this.findOne({ email }).
login(email) == Starts("login", NaN, email, "", FALSE, "findOne", NoThrown)

\* POST /refresh with a token the service issued: AuthService.refreshToken
\* verifies the token (AuthenticationError when jwt.verify throws, as for
\* an expired token) and awaits this.findById(parseInt(decoded.id)).
refreshToken(token, verified) ==
    /\ token \in tokens
    /\ Starts("refreshToken", parseInt(token.id), NoEmail, "", FALSE,
              IF verified THEN "findById" ELSE "failed",
              IF verified THEN NoThrown ELSE AuthenticationError({}))

\* PUT /users/:userId/role with a token: authenticate and authorize('admin')
\* let a token of role admin through; AuthService.updateUserRole checks the
\* role against validRoles and awaits this.findById(userId).
updateUserRole(token, userId, newRole) ==
    /\ token \in tokens
    /\ authorizeOutcome({"admin"}, token.role) = NoThrown
    /\ Starts("updateUserRole", userId, NoEmail, newRole, FALSE,
              IF newRole \in ValidRoles THEN "findById" ELSE "failed",
              IF newRole \in ValidRoles THEN NoThrown
              ELSE AuthenticationError({}))

\* The bodies of PUT /:id that pass UserValidation.body.update, each an
\* email (or none) and whether it has a name: at least one of the two.
UpdateBodies ==
    {<<email, name>> : email \in Emails \cup {NoEmail}, name \in BOOLEAN}
        \ {<<NoEmail, FALSE>>}

\* PUT /:id of the users router, which no middleware guards:
\* UserService.updateUser awaits getUserById(id); the body passed
\* UserValidation.body.update, whose email and name are optional.
updateUser(id, email, name) ==
    Starts("updateUser", id, email, "", name, "findById", NoThrown)

\* DELETE /:id of the users router, which no middleware guards:
\* UserService.deleteUser awaits getUserById(id).
deleteUser(id) ==
    Starts("deleteUser", id, NoEmail, "", FALSE, "findById", NoThrown)

\* this.findById(id) of call c settles. The id is a number and the column
\* a UUID: the query is refused (findById's catch passes the error to
\* handleDatabaseError) or it resolves with the rows whose id is that
\* number. NotFoundError when there is none; otherwise refreshToken fails
\* with AuthenticationError for a user that is not active and else
\* returns a token with the role of the row, updateUserRole awaits
\* updateById, deleteUser awaits its transaction and updateUser awaits
\* getUserByEmail when data holds an email, updateById when not.
FindByIdResolves(c, refused) ==
    /\ c \in 1..Len(userCalls) /\ userCalls[c].pc = "findById"
    /\ IF refused
       THEN Continues(c, "failed", handleDatabaseError(PrismaValidationError))
       ELSE \E found \in UserFindFirst(ById(users, userCalls[c].id)) :
          IF found = {}
          THEN Continues(c, "failed", NotFoundError({}))
          ELSE IF userCalls[c].op = "refreshToken"
          THEN IF \E u \in found : u.status # "active"
               THEN Continues(c, "failed", AuthenticationError({}))
               ELSE /\ userCalls' = [userCalls EXCEPT ![c].pc = "done"]
                    /\ tokens' = tokens \cup
                         {Token(u.id, u.role, "refresh") : u \in found}
                    /\ UNCHANGED <<users, nextId, registers, seeded>>
                    /\ UNCHANGED <<orchVars, reqVars, svcVars, procVars, pageVars, valVars, corrVars, authVars>>
          ELSE Continues(c,
                         CASE userCalls[c].op = "updateUserRole" -> "updateById"
                           [] userCalls[c].op = "deleteUser" -> "transaction"
                           [] OTHER -> IF userCalls[c].email # NoEmail
                                       THEN "findOne" ELSE "updateById",
                         NoThrown)

\* this.findOne({ email }) of call c resolves. login: AuthenticationError
\* when no row has the email or the user is not active, otherwise the row
\* is kept and verifyPassword awaited. updateUser: ConflictError when a row with another id has the
\* email, otherwise updateById is awaited.
FindOneResolves(c) ==
    /\ c \in 1..Len(userCalls) /\ userCalls[c].pc = "findOne"
    /\ \E found \in UserFindFirst(ByEmail(users, userCalls[c].email)) :
          IF userCalls[c].op = "login"
          THEN IF found = {} \/ \E u \in found : u.status # "active"
               THEN Continues(c, "failed", AuthenticationError({}))
               ELSE \E u \in found :
                        /\ userCalls' = [userCalls EXCEPT ![c].pc = "verifyPassword",
                                                  ![c].id = u.id,
                                                  ![c].role = u.role]
                        /\ UNCHANGED <<users, nextId, registers, tokens, seeded>>
                        /\ UNCHANGED <<orchVars, reqVars, svcVars, procVars, pageVars, valVars, corrVars, authVars>>
          ELSE IF \E u \in found : u.id # userCalls[c].id
               THEN Continues(c, "failed", ConflictError({}))
               ELSE Continues(c, "updateById", NoThrown)

\* this.verifyPassword(..) of a login resolves: AuthenticationError for a
\* wrong password; otherwise a token with the id and the role of the row
\* findOne returned.
VerifyPasswordResolves(c, isValidPassword) ==
    /\ c \in 1..Len(userCalls) /\ userCalls[c].pc = "verifyPassword"
    /\ IF isValidPassword
       THEN /\ userCalls' = [userCalls EXCEPT ![c].pc = "done"]
            /\ tokens' = tokens \cup {Token(userCalls[c].id, userCalls[c].role, "login")}
            /\ UNCHANGED <<users, nextId, registers, seeded>>
            /\ UNCHANGED <<orchVars, reqVars, svcVars, procVars, pageVars, valVars, corrVars, authVars>>
       ELSE Continues(c, "failed", AuthenticationError({}))

\* Call c ends with the outcome of a write.
Settles(c, w) ==
    /\ userCalls' = [userCalls EXCEPT ![c].pc = IF w.error = NoThrown THEN "done"
                                        ELSE "failed",
                              ![c].error = w.error]
    /\ users' = w.table
    /\ UNCHANGED <<nextId, registers, tokens, seeded>>
    /\ UNCHANGED <<orchVars, reqVars, svcVars, procVars, pageVars, valVars, corrVars, authVars>>

\* this.updateById(id, data) of call c settles: data is { role: newRole }
\* for updateUserRole and the body for updateUser.
UpdateByIdResolves(c) ==
    /\ c \in 1..Len(userCalls) /\ userCalls[c].pc = "updateById"
    /\ Settles(c, BaseUpdateById(users, userCalls[c].id,
                                 CallData(userCalls[c]), "adminRoute"))

\* this.transaction(..) of deleteUser settles: the callback deletes the
\* user's row.
TransactionResolves(c) ==
    /\ c \in 1..Len(userCalls) /\ userCalls[c].pc = "transaction"
    /\ Settles(c, BaseWrite(UserDelete(users, userCalls[c].id)))

vars == <<orchVars, reqVars, svcVars, procVars, extVars>>

\* The state after construction, but for the users table.
InitProgram ==
    /\ modules = <<>>
    /\ lastSort = [sorted |-> <<>>, err |-> NoError]
    /\ callLen = 0
    /\ lastCall = "none"
    /\ pc = "idle"
    /\ pos = 0
    /\ running = {}
    /\ result = NoError
    /\ initLog = <<>> /\ initCompleted = <<>>
    /\ shutLog = <<>> /\ shutFailed = {}
    /\ contextShutdown = FALSE
    /\ invoked = {} /\ initialized = {}
    /\ nodeEnv \in {"development", "production"}
    /\ request = NoRequest
    /\ stages = <<>>
    /\ handler = "notArrived"
    /\ handlerWrote = FALSE
    /\ timer = "unset"
    /\ headersSent = FALSE
    /\ writes = <<>>
    /\ finished = FALSE
    /\ closed = FALSE
    /\ delegated = FALSE
    /\ logged = <<>>
    /\ options = [constructed |-> FALSE, enableSoftDelete |-> FALSE]
    /\ store = [id \in Ids |-> "absent"]
    /\ svcResult = NoOutcome
    /\ tombstoned = {}
    /\ phase = "bootstrap"
    /\ initCount = 0
    /\ server = "none"
    /\ inflight = 0
    /\ closeCallbacks = 0
    /\ deadline = FALSE
    /\ calls = <<>>
    /\ signals = 0
    /\ exit = NotExited
    /\ paginated = NoEnvelope
    /\ validation = NotValidated
    /\ correlation = NoCorrelation
    /\ jwtSecret = "notLoaded"
    /\ adminRequest = NoAdminRequest
    /\ nextId = Cardinality(Emails) + 1
    /\ registers = <<>>
    /\ userCalls = <<>>
    /\ tokens = {}
    /\ seeded = FALSE

\* The process starts on an empty users table.
Init == InitProgram /\ users = {}

\* The process starts on a database that holds any of InitialTables.
InitAccounts == InitProgram /\ users \in InitialTables

\* The orchestrator's public interface, called in any order.
Next ==
    \/ \E m \in ModulePool : registerModule(m)
    \/ initializeModules
    \/ InitializeResolves
    \/ InitializeRejects
    \/ shutdown
    \/ OnShutdownResolves
    \/ OnShutdownRejects
    \/ ContextShutdownResolves
    \/ ContextShutdownRejects

Spec == Init /\ [][Next]_vars

\* Dependency resolution alone, over every module of AllModules.
NextSort ==
    \/ \E m \in AllModules : registerModule(m)
    \/ SortModules

SpecSort == Init /\ [][NextSort]_vars

\* One request on the started server.
NextReq ==
    \/ \E req \in Requests : RequestArrives(req)
    \/ BodyRead
    \/ HandlerResponds
    \/ HandlerReturns
    \/ \E err \in HandlerErrors \cup {ServiceUnavailable} : HandlerThrows(err)
    \/ TimeoutFires
    \/ ResponseFinishes
    \/ ConnectionCloses

SpecReq == Init /\ [][NextReq]_vars

\* The same with the timer's callback run once it is due (Node runs a due
\* timer as long as the event loop turns).
SpecReqLive == SpecReq /\ WF_vars(TimeoutFires)

\* A BaseService and the operations of its subclasses, in any order.
NextSvc ==
    \/ \E opts \in {"default", "softDelete", "hardDelete"} : BaseService(opts)
    \/ \E filters \in Filters, failure \in ReadFailures : findMany(filters, failure)
    \/ \E id \in Ids, failure \in ReadFailures : findById(id, failure)
    \/ \E filters \in Filters, failure \in ReadFailures : findOne(filters, failure)
    \/ \E id \in Ids, failure \in WriteFailures : create(id, failure)
    \/ \E id \in Ids, data \in UpdateData, failure \in WriteFailures :
            updateById(id, data, failure)
    \/ \E id \in Ids, failure \in WriteFailures : deleteById(id, failure)
    \/ \E filters \in Filters, failure \in ReadFailures : exists(filters, failure)
    \/ \E filters \in Filters, failure \in ReadFailures : count(filters, failure)
    \/ \E callback \in TxCallbacks,
          failure \in WriteFailures \cup {PrismaError("P2002"), PrismaError("P2025")} :
            transaction(callback, failure)

SpecSvc == Init /\ [][NextSvc]_vars

\* The process from bootstrap() to its exit.
NextProc ==
    \/ \E m \in BootModules : bootstrapRegister(m)
    \/ spark
    \/ ContextInitializeResolves
    \/ ContextInitializeRejects
    \/ SparkInitializeResolves
    \/ SparkInitializeRejects
    \/ RequestAccepted
    \/ RequestCompleted
    \/ \E signal \in ShutdownSignals : SignalReceived(signal)
    \/ ServerClosed
    \/ \E c \in 1..Len(calls) : HookResolves(c)
    \/ \E c \in 1..Len(calls) : HookRejects(c)
    \/ \E c \in 1..Len(calls) : DisconnectResolves(c)
    \/ \E c \in 1..Len(calls) : DisconnectRejects(c)
    \/ DeadlineFires

SpecProc == Init /\ [][NextProc]_vars

\* The forced-shutdown timer, once set, runs out unless the process exits
\* before.
SpecProcLive == SpecProc /\ WF_vars(DeadlineFires)

\* The controllers and services computing pagination envelopes.
NextPage ==
    \/ \E o \in PaginationOptions, total \in 0..MaxTotal :
            calculatePagination(o.page, o.limit, total)
    \/ \E o \in PaginationOptions, total \in 0..MaxTotal :
            findManyPaginated(o, total)

SpecPage == Init /\ [][NextPage]_vars

\* A route guarded by validateRequest.
NextValidate ==
    \/ validateRequest
    \/ ValidatedHandlerRuns

SpecValidate == Init /\ [][NextValidate]_vars

\* A request from the correlation-id stage to its answer.
NextCorrelation ==
    \/ \E a \in HeaderValues, b \in HeaderValues : requestId(a, b)
    \/ requestLogger
    \/ sendResponse
    \/ sendNoContentResponse
    \/ healthCheck
    \/ errorHandlerEnvelope

SpecCorrelation == Init /\ [][NextCorrelation]_vars

\* A request for an admin-only route of the auth module.
NextAdmin ==
    \/ \E secret \in {"defined", "unset"} : loadConfig(secret)
    \/ \E route \in AdminRoutes, authorization \in Authorizations,
          valid \in BOOLEAN : AdminRequestArrives(route, authorization, valid)
    \/ authenticate
    \/ authorize
    \/ validateAdminRequest
    \/ adminHandler

SpecAdmin == Init /\ [][NextAdmin]_vars

\* The auth module's accounts: the seed, then registrations, logins,
\* refreshes, role updates, updates and deletions in any interleaving.
\* UpdateByIdResolves and TransactionResolves are no steps of it: a call
\* awaits updateById or the transaction only after findById returned a
\* row, and no row of the table has the number a call asks for as its id.
NextAccounts ==
    \/ createDefaultAdmin
    \/ \E email \in Emails, role \in ValidRoles, name \in BOOLEAN :
            register(email, role, name)
    \/ \E c \in 1..Len(registers) : RegisterFindOneResolves(c)
    \/ \E c \in 1..Len(registers) : RegisterCreateResolves(c)
    \/ \E email \in Emails : login(email)
    \/ \E token \in tokens, verified \in BOOLEAN : refreshToken(token, verified)
    \/ \E token \in tokens, userId \in UserIds, newRole \in ValidRoles :
            updateUserRole(token, userId, newRole)
    \/ \E id \in UserIds, body \in UpdateBodies :
            updateUser(id, body[1], body[2])
    \/ \E id \in UserIds : deleteUser(id)
    \/ \E c \in 1..Len(userCalls), refused \in BOOLEAN :
            FindByIdResolves(c, refused)
    \/ \E c \in 1..Len(userCalls) : FindOneResolves(c)
    \/ \E c \in 1..Len(userCalls), isValidPassword \in BOOLEAN :
            VerifyPasswordResolves(c, isValidPassword)

SpecAccounts == InitAccounts /\ [][NextAccounts]_vars

\* ====================================================================
\* Properties
\* ====================================================================

\* ----------------------------------------------- the dependency graph
\* The edges the declared dependencies give: module i depends on the module
\* its dependency name resolves to (the lookup of visit).
DepEdges(mods) ==
    UNION {{e \in {<<i, find(mods, mods[i].dependencies[k])>> :
                      k \in 1..Len(mods[i].dependencies)} : e[2] # 0} :
           i \in 1..Len(mods)}

\* The pairs joined by a path of one or more edges of R: R extended by the
\* pairs two of its members join, until that adds nothing.
RECURSIVE Paths(_)
Paths(R) ==
    LET joined == {<<q[1][1], q[2][2]>> :
                      q \in {r \in R \X R : r[1][2] = r[2][1]}}
    IN  IF joined \subseteq R THEN R ELSE Paths(R \cup joined)

DependsOn(mods) == Paths(DepEdges(mods))

\* Module i lies on a dependency cycle (of any length, 1 included).
OnCycle(mods, i) == <<i, i>> \in DependsOn(mods)

\* No module lies on a dependency cycle.
Acyclic(mods) ==
    LET D == DependsOn(mods) IN \A i \in 1..Len(mods) : <<i, i>> \notin D

\* The dependencies contain a cycle of length 2 or more.
HasCycle2(mods) ==
    LET D == DependsOn(mods)
    IN  \E i, j \in 1..Len(mods) : i # j /\ <<i, j>> \in D /\ <<j, i>> \in D

UniqueNames(mods) ==
    \A i, j \in 1..Len(mods) : mods[i].name = mods[j].name => i = j

NoMissingDependency(mods) ==
    \A i \in 1..Len(mods) : \A k \in 1..Len(mods[i].dependencies) :
        find(mods, mods[i].dependencies[k]) # 0

\* The registry as the latest call found it.
Registered == Prefix(modules, callLen)

\* The position of module i in the sequence s (0: absent).
PosIn(s, i) == IF \E k \in 1..Len(s) : s[k] = i
               THEN CHOOSE k \in 1..Len(s) : s[k] = i ELSE 0

\* ------------------------------------------------------------------ C1
\* C1: when the registered modules have unique names, no dependency cycle
\* and no missing dependency, sortModulesByDependencies returns every
\* registered module exactly once and every module after all the modules it
\* declares as dependencies, whatever the registration order.
C1_SortedRespectsDependencies ==
    (/\ lastCall = "sort"
     /\ UniqueNames(Registered)
     /\ NoMissingDependency(Registered)
     /\ Acyclic(Registered))
    => /\ lastSort.err = NoError
       /\ Len(lastSort.sorted) = callLen
       /\ Range(lastSort.sorted) = 1..callLen
       /\ \A e \in DepEdges(Registered) :
              PosIn(lastSort.sorted, e[2]) < PosIn(lastSort.sorted, e[1])

\* C1 witness: C (dep B), B (dep A), A registered in the order [C, B, A]
\* and sorted to [A, B, C].
C1_Witness ==
    /\ lastCall = "sort"
    /\ callLen = 3
    /\ [k \in 1..3 |-> <<modules[k].name, modules[k].dependencies>>]
           = << <<"C", <<"B">> >>, <<"B", <<"A">> >>, <<"A", <<>> >> >>
    /\ lastSort.err = NoError
    /\ [k \in 1..3 |-> modules[lastSort.sorted[k]].name] = <<"A", "B", "C">>

\* ------------------------------------------------------------------ C2
\* C2 as claimed: whenever the declared dependencies contain a cycle of
\* length 2 or more, sortModulesByDependencies fails with
\* CIRCULAR_DEPENDENCY naming a module on a cycle.
C2_CycleAlwaysCircularError ==
    (lastCall = "sort" /\ HasCycle2(Registered))
    => /\ lastSort.err.code = "CIRCULAR_DEPENDENCY"
       /\ find(Registered, lastSort.err.module) # 0
       /\ OnCycle(Registered, find(Registered, lastSort.err.module))

\* C2 amended: whenever the declared dependencies contain a cycle of length
\* 2 or more, sortModulesByDependencies fails; it fails with
\* CIRCULAR_DEPENDENCY naming a module on a cycle when every declared
\* dependency is registered, and otherwise with that error or with
\* MISSING_DEPENDENCY naming a dependency that is not registered.
C2_CycleDetected ==
    (lastCall = "sort" /\ HasCycle2(Registered))
    => /\ lastSort.err.code \in {"CIRCULAR_DEPENDENCY", "MISSING_DEPENDENCY"}
       /\ NoMissingDependency(Registered)
             => lastSort.err.code = "CIRCULAR_DEPENDENCY"
       /\ lastSort.err.code = "CIRCULAR_DEPENDENCY"
             => /\ find(Registered, lastSort.err.module) # 0
                /\ OnCycle(Registered, find(Registered, lastSort.err.module))
       /\ lastSort.err.code = "MISSING_DEPENDENCY"
             => find(Registered, lastSort.err.dep) = 0

\* C2 witness: a cycle of three modules, every dependency registered, and
\* the sort failed with CIRCULAR_DEPENDENCY.
C2_Witness ==
    /\ lastCall = "sort"
    /\ callLen = 3
    /\ UniqueNames(Registered)
    /\ NoMissingDependency(Registered)
    /\ \A i \in 1..3 : Len(Registered[i].dependencies) = 1
    /\ \A i, j \in 1..3 : <<i, j>> \in DependsOn(Registered)
    /\ lastSort.err.code = "CIRCULAR_DEPENDENCY"

\* ------------------------------------------------------------------ C8
\* C8 as claimed: registerModule refuses a module whose name is already
\* registered, so the registry never holds two modules of the same name.
C8_NoDuplicateNames == UniqueNames(modules)

\* ------------------------------------------------------------------ C3
\* C3: when the dependency resolution of initializeModules fails with
\* MISSING_DEPENDENCY or CIRCULAR_DEPENDENCY, the call rejects with that
\* error and no module's initialize has been invoked by the call, at the
\* failure or at any time after it.
C3_NoInitializeOnResolutionFailure ==
    (/\ lastCall = "initializeModules"
     /\ lastSort.err.code \in {"MISSING_DEPENDENCY", "CIRCULAR_DEPENDENCY"})
    => /\ pc = "idle"
       /\ result = lastSort.err
       /\ initLog = <<>>
       /\ running = {}

\* C3 witness: A (dep B) and B (dep A) are registered and initializeModules
\* has failed with CIRCULAR_DEPENDENCY.
C3_Witness ==
    /\ lastCall = "initializeModules"
    /\ callLen = 2
    /\ modules[1].name = "A" /\ modules[1].dependencies = <<"B">>
    /\ modules[2].name = "B" /\ modules[2].dependencies = <<"A">>
    /\ result.code = "CIRCULAR_DEPENDENCY"
    /\ initLog = <<>>

\* ------------------------------------------------------------------ C4
\* C4: initializeModules invokes initialize in the sorted order and one
\* module at a time: at most one initialize is pending, the modules invoked
\* so far are a prefix of the sorted order, and when a module's initialize
\* is pending the initialize of every earlier module of the order, and so of
\* every module it depends on, has resolved.
C4_SequentialInitialization ==
    lastCall = "initializeModules"
    => /\ Cardinality(running) <= 1
       /\ Len(initLog) <= Len(lastSort.sorted)
       /\ initLog = Prefix(lastSort.sorted, Len(initLog))
       /\ Len(initCompleted) <= Len(initLog)
       /\ initCompleted = Prefix(initLog, Len(initCompleted))
       /\ \A i \in running :
              /\ pc = "initializing"
              /\ i = initLog[Len(initLog)]
              /\ Len(initCompleted) = Len(initLog) - 1
              /\ \A e \in DepEdges(Registered) :
                     e[1] = i /\ e[2] # i => e[2] \in Range(initCompleted)

\* C4 witness: the third module of the chain C -> B -> A is being
\* initialized after the first two have resolved.
C4_Witness ==
    /\ lastCall = "initializeModules"
    /\ pc = "initializing"
    /\ Len(lastSort.sorted) = 3
    /\ Len(initLog) = 3
    /\ Len(initCompleted) = 2
    /\ [k \in 1..3 |-> modules[initLog[k]].name] = <<"A", "B", "C">>
    /\ modules[initLog[3]].dependencies = <<"B">>

\* ------------------------------------------------------------------ C5
\* C5: an initializeModules call that ends before every module of the
\* sorted order has resolved rejects with MODULE_INITIALIZATION_ERROR
\* naming the module whose initialize failed; that module is the last one
\* the call invoked, no later module of the order is invoked, and neither a
\* shutdown hook nor context.shutdown() is called.
C5_InitializationFailureAborts ==
    (/\ lastCall = "initializeModules"
     /\ pc = "idle"
     /\ lastSort.err = NoError)
    => /\ running = {}
       /\ shutLog = <<>> /\ ~contextShutdown
       /\ Range(initCompleted) \subseteq initialized
       /\ IF Len(initCompleted) = Len(lastSort.sorted)
          THEN result = NoError
          ELSE /\ result.code = "MODULE_INITIALIZATION_ERROR"
               /\ initLog = Prefix(lastSort.sorted, Len(initCompleted) + 1)
               /\ initCompleted = Prefix(initLog, Len(initLog) - 1)
               /\ result.module = modules[initLog[Len(initLog)]].name

\* C5 witness: of three sorted modules the first resolved, the second
\* failed and the third was never invoked.
C5_Witness ==
    /\ lastCall = "initializeModules"
    /\ pc = "idle"
    /\ result.code = "MODULE_INITIALIZATION_ERROR"
    /\ Len(lastSort.sorted) = 3
    /\ Len(initLog) = 2
    /\ Len(initCompleted) = 1
    /\ result.module = modules[lastSort.sorted[2]].name
    /\ lastSort.sorted[1] \in initialized
    /\ lastSort.sorted[3] \notin invoked

\* ------------------------------------------------------------------ C6
\* The modules among the first n that define onShutdown, last registered
\* first.
RECURSIVE HooksInReverse(_, _)
HooksInReverse(mods, n) ==
    IF n = 0 THEN <<>>
    ELSE (IF mods[n].hasOnShutdown THEN <<n>> ELSE <<>>)
         \o HooksInReverse(mods, n - 1)

\* C6: shutdown invokes the onShutdown hooks of the registered modules that
\* define one in reverse registration order, one at a time; whether or not
\* hooks rejected, every hook has been invoked when context.shutdown() is
\* invoked, context.shutdown() is invoked before the call returns, and no
\* hook's rejection becomes the call's result.
C6_ShutdownAttemptsEveryHook ==
    lastCall = "shutdown"
    => /\ Len(shutLog) <= Len(HooksInReverse(modules, callLen))
       /\ shutLog = Prefix(HooksInReverse(modules, callLen), Len(shutLog))
       /\ shutFailed \subseteq Range(shutLog)
       /\ pc = "shuttingDown"
             => running = {shutLog[Len(shutLog)]} /\ ~contextShutdown
       /\ pc \in {"closingContext", "idle"}
             => /\ shutLog = HooksInReverse(modules, callLen)
                /\ contextShutdown
                /\ running = {}
       /\ pc = "idle" => result.code \in {"NONE", "DISCONNECT_FAILED"}

\* C6 witness: of three registered modules the last registered one with a
\* hook rejected, an earlier registered one was still shut down, one module
\* has no hook, and shutdown went on to close the context.
C6_Witness ==
    /\ lastCall = "shutdown"
    /\ pc = "idle"
    /\ callLen = 3
    /\ Len(shutLog) = 2
    /\ shutLog[1] \in shutFailed
    /\ shutLog[2] \notin shutFailed
    /\ shutLog[1] > shutLog[2]
    /\ \E i \in 1..3 : ~modules[i].hasOnShutdown
    /\ contextShutdown

\* ------------------------------------------------------------------ C7
\* Module i's initialize is invoked by this step.
InitializeInvoked(i) ==
    lastCall' = "initializeModules" /\ i \in running' /\ i \notin running

\* C7 as claimed: over every sequence of registerModule, initializeModules
\* and shutdown calls no module's initialize is invoked a second time, and
\* no module's onShutdown is invoked unless its initialize has resolved.
C7_LifecycleMonotonic ==
    /\ [](lastCall = "shutdown" => Range(shutLog) \subseteq initialized)
    /\ [][\A i \in 1..Len(modules) : InitializeInvoked(i) => i \notin invoked]_vars

\* ------------------------------------------------------------------ C9
\* The response written on a 408 by the error handler.
TimeoutResponse ==
    [by |-> "errorHandler", statusCode |-> 408,
     body |-> [success |-> FALSE, code |-> "TIMEOUT_ERROR", statusCode |-> 408,
               details |-> {}, stack |-> (nodeEnv = "development")],
     from |-> TimeoutError({}), accepted |-> TRUE, sent |-> TRUE]

\* C9: at most one response is written for a request: at most one
\* res.status(..).json(..) is sent to the client, errorHandler is entered
\* and writes at most once, and errorHandler never writes on a response
\* whose headers are sent: neither after the watchdog's 408 when the
\* handler completes or fails later, nor when a handler fails after having
\* sent its response.
C9_AtMostOneResponse ==
    /\ Cardinality({k \in 1..Len(writes) : writes[k].sent}) <= 1
    /\ Cardinality({k \in 1..Len(writes) : writes[k].by = "errorHandler"}) <= 1
    /\ Cardinality({k \in 1..Len(stages) : stages[k] = "errorHandler"}) <= 1
    /\ \A k \in 1..Len(writes) :
          writes[k].by = "errorHandler" => writes[k].accepted

\* C9 witness: the watchdog's 408 was sent, the handler tried to answer
\* afterwards and failed, and nothing more was written.
C9_Witness ==
    /\ timer = "fired"
    /\ writes = <<TimeoutResponse>>
    /\ handler = "finished"
    /\ handlerWrote

\* ----------------------------------------------------------------- C10
\* C10: when the watchdog's timer runs out and no response has been
\* produced, the watchdog passes a TimeoutError on and the response written
\* is 408 with code TIMEOUT_ERROR; and a request whose watchdog is set and
\* that has no response yet gets a response or loses its connection.
C10_TimeoutAnswers408 ==
    /\ [][(timer = "armed" /\ timer' = "fired" /\ ~headersSent)
            => (headersSent' /\ writes' = Append(writes, TimeoutResponse))]_vars
    /\ (timer = "armed" /\ ~headersSent) ~> (headersSent \/ closed)

\* C10 witness: the handler is still running and has sent nothing, the
\* watchdog has fired and the 408 is the response.
C10_Witness ==
    /\ handler = "running"
    /\ ~handlerWrote
    /\ timer = "fired"
    /\ writes = <<TimeoutResponse>>
    /\ ~closed

\* ----------------------------------------------------------------- C11
\* The fixed order of the stages before the terminal error responder:
\* correlation id, security headers, CORS, body parsing (JSON, then
\* url-encoded), compression, timeout watchdog, request logging, rate
\* limiting, health check, module routes, not-found fallback.
StageOrder ==
    <<"requestId", "helmet", "cors", "express.json", "express.urlencoded",
      "compression", "timeout", "requestLogger", "rateLimit", "health",
      "moduleRoutes", "notFoundHandler">>

StageIndex(stage) == CHOOSE k \in 1..Len(StageOrder) : StageOrder[k] = stage

\* The stages of a log other than the terminal error responder.
NonTerminal(log) == SelectSeq(log, LAMBDA stage : stage # "errorHandler")

\* The stages a request has to pass: all but the rate limiter outside
\* production and the health check for another path.
HasToPass(stage, req) ==
    /\ stage = "rateLimit" => isProduction
    /\ stage = "health" => req.path = "/health"

\* The response is the one errorHandler wrote.
AnsweredByErrorHandler ==
    \E k \in 1..Len(writes) : writes[k].by = "errorHandler" /\ writes[k].accepted

\* C11: a request enters the stages in the fixed order and skips none it has
\* to pass; once a stage has passed an error on, the only stage entered
\* afterwards is the terminal error responder, which produces the response
\* unless one was sent before; and while a route handler is pending no other
\* stage but the terminal error responder is entered.
C11_StagesInOrder ==
    /\ [](LET nt == NonTerminal(stages)
          IN  /\ handler # "notArrived" => Len(nt) > 0
              /\ \A i, j \in 1..Len(nt) :
                    i < j => StageIndex(nt[i]) < StageIndex(nt[j])
              /\ \A i \in 1..Len(nt) : \A k \in 1..StageIndex(nt[i]) :
                    HasToPass(StageOrder[k], request)
                        => \E j \in 1..i : nt[j] = StageOrder[k]
              /\ \A i, j \in 1..Len(stages) :
                    (i < j /\ stages[i] = "errorHandler")
                        => stages[j] = "errorHandler"
              /\ (/\ \E i \in 1..Len(stages) : stages[i] = "errorHandler"
                  /\ ~\E k \in 1..Len(writes) :
                        writes[k].by = "handler" /\ writes[k].accepted)
                    => AnsweredByErrorHandler)
    /\ [][(handler = "running" /\ stages' # stages)
            => stages' = Append(stages, "errorHandler")]_vars

\* C11 witness: in production a caller over its rate limit asked for a
\* module route; the request went through every stage up to the rate
\* limiter and was answered 429 by the terminal error responder.
C11_Witness ==
    /\ request = [path |-> "/api", body |-> "ok", overLimit |-> TRUE]
    /\ stages = <<"requestId", "helmet", "cors", "express.json",
                  "express.urlencoded", "compression", "timeout",
                  "requestLogger", "rateLimit", "errorHandler">>
    /\ Len(writes) = 1 /\ writes[1].statusCode = 429 /\ writes[1].accepted

\* ----------------------------------------------------------------- C16
\* The errors that reach errorHandler in this model.
ErrorShapes ==
    HandlerErrors \cup {ServiceUnavailable, BodyParseError, EntityTooLargeError,
                        HeadersSentError, RateLimitError({}), NotFoundError({}),
                        TimeoutError({})}

\* The status and code errorHandler answers err with have these values.
Answers(w, statusCode, code) ==
    w.statusCode = statusCode /\ w.body.code = code

\* C16: normalizeError returns an AppError unchanged and is idempotent; the
\* response errorHandler writes for a P2002 error is 409 (Conflict), for
\* P2025 404 (NotFound), for P2003 400, for a malformed JSON body 400, for
\* a LIMIT_FILE_SIZE upload error 413 (PayloadTooLarge), for an invalid or
\* expired token 401; and the HTTP status always equals the statusCode of
\* the envelope.
C16_NormalizeErrorMapping ==
    /\ \A e \in ErrorShapes :
          /\ e.class = "AppError" => normalizeError(e) = e
          /\ normalizeError(normalizeError(e)) = normalizeError(e)
    /\ \A k \in 1..Len(writes) :
          writes[k].by = "errorHandler" =>
            LET w == writes[k]
                e == writes[k].from
            IN  /\ w.statusCode = w.body.statusCode
                /\ e.class = "AppError"
                      => Answers(w, e.statusCode, e.code)
                /\ e = PrismaError("P2002")
                      => Answers(w, 409, "CONFLICT_ERROR")
                /\ e = PrismaError("P2025") => Answers(w, 404, "NOT_FOUND")
                /\ e = PrismaError("P2003") => w.statusCode = 400
                /\ e = BodyParseError => w.statusCode = 400
                /\ e = Thrown("Error", "MulterError", "LIMIT_FILE_SIZE", FALSE)
                      => Answers(w, 413, "PAYLOAD_TOO_LARGE")
                /\ e.name \in {"JsonWebTokenError", "TokenExpiredError"}
                      => w.statusCode = 401

\* C16 witness: a handler failed with a P2002 error and the response is 409
\* with code CONFLICT_ERROR.
C16_Witness ==
    /\ Len(writes) = 1
    /\ writes[1].from = PrismaError("P2002")
    /\ writes[1].accepted
    /\ Answers(writes[1], 409, "CONFLICT_ERROR")

\* ----------------------------------------------------------------- C17
\* An error normalizeError does not recognise: a plain Error.
UnrecognisedError == Thrown("Error", "Error", "", FALSE)

\* C17: the response to an unrecognised error is 500 INTERNAL_ERROR; in
\* production it has no stack field and its details carry neither the
\* original message nor the stack.
C17_NoLeakInProduction ==
    \A k \in 1..Len(writes) :
        (writes[k].by = "errorHandler" /\ writes[k].from = UnrecognisedError)
            => /\ Answers(writes[k], 500, "INTERNAL_ERROR")
               /\ nodeEnv = "production" =>
                    /\ ~writes[k].body.stack
                    /\ writes[k].body.details \cap {"originalError", "stack"} = {}

\* ----------------------------------------------------------------- C19
\* C19: a request whose body is over the 10MB ceiling is answered 413 with
\* code PAYLOAD_TOO_LARGE and no route handler runs for it.
C19_OversizedRejected413 ==
    (/\ handler \notin {"notArrived", "readingBody"}
     /\ request.body \in {"tooLargeJson", "tooLargeUrlencoded",
                          "tooLargeOther"})
        => /\ handler = "finished" /\ ~handlerWrote
           /\ Len(writes) > 0
           /\ writes[1].accepted
           /\ Answers(writes[1], 413, "PAYLOAD_TOO_LARGE")

\* ----------------------------------------------------------------- C18
\* C18: the error a BaseService operation throws for a persistence failure
\* has the status errorHandler's mapping gives that failure: NotFound 404
\* for P2025, Conflict 409 for P2002.
C18_ServiceErrorsAsResponder ==
    svcResult.failure # NoThrown =>
        /\ svcResult.error.statusCode = normalizeError(svcResult.failure).statusCode
        /\ svcResult.failure = PrismaError("P2025")
              => (svcResult.error.name = "NotFoundError"
                  /\ svcResult.error.statusCode = 404)
        /\ svcResult.failure = PrismaError("P2002")
              => (svcResult.error.name = "ConflictError"
                  /\ svcResult.error.statusCode = 409)

\* ----------------------------------------------------------------- C20
ReadOps == {"findMany", "findById", "findOne", "exists", "count"}

\* The latest operation was a deleteById that succeeded.
Deleted(outcome) == outcome.op = "deleteById" /\ outcome.error = NoThrown

\* C20 as stated: under soft delete a deleteById that succeeds leaves the
\* record in the table with its deletion timestamp set, and from then on no
\* read returns or counts that record.
C20_SoftDeletedNeverRead ==
    /\ [][(options.enableSoftDelete /\ Deleted(svcResult'))
            => \A id \in svcResult'.ids :
                  store[id] # "absent" /\ store'[id] = "deleted"]_vars
    /\ []((options.enableSoftDelete /\ svcResult.op \in ReadOps)
            => svcResult.ids \cap tombstoned = {})

\* C20 amended: under soft delete a deleteById that succeeds leaves the
\* record in the table with its deletion timestamp set, and no read returns
\* or counts a record whose deletion timestamp is set.
C20_TombstonedHidden ==
    /\ [][(options.enableSoftDelete /\ Deleted(svcResult'))
            => \A id \in svcResult'.ids :
                  store[id] # "absent" /\ store'[id] = "deleted"]_vars
    /\ []((options.enableSoftDelete /\ svcResult.op \in ReadOps)
            => \A id \in svcResult.ids : store[id] = "live")

\* C20 witness: under soft delete record 1 was deleted and is still in the
\* table with its timestamp set, and a findMany returned record 2 alone.
C20_Witness ==
    /\ options.enableSoftDelete
    /\ 1 \in tombstoned /\ store[1] = "deleted" /\ store[2] = "live"
    /\ svcResult = Outcome("findMany", NoThrown, NoThrown, {2})

\* ====================================================================
\* Claims about the process: signals, shutdown and exit
\* ====================================================================

\* The shutdown calls whose module hook is pending.
HookPending == {c \in 1..Len(calls) : calls[c].pc = "hook"}

\* The shutdown calls that have called context.shutdown().
ContextClosing == {c \in 1..Len(calls) : calls[c].pc \in {"context", "done", "rejected"}}

\* C12: on a termination signal the server stops accepting first, then the
\* modules are shut down in the reverse of their registration order, then
\* the persistence connection is closed: no module hook runs while the
\* server still accepts, each shutdown call goes down the registry, and
\* the persistence connection is never being closed while a module's
\* shutdown hook is still pending.
C12_ShutdownOrderOnSignal ==
    /\ [](calls # <<>> => server \in {"closing", "closed"})
    /\ [][\A c \in 1..Len(calls) :
            (calls[c].pc = "hook" /\ calls'[c].pc = "hook")
                => calls'[c].pos <= calls[c].pos]_vars
    /\ [](ContextClosing # {} => HookPending = {})

\* C13: once a termination signal is received the process eventually
\* exits.
C13_SignalLeadsToExit == (signals > 0) ~> exit.exited

\* A signal was handled, a module's shutdown hook never settled, and the
\* forced-shutdown timer ended the process.
C13_Witness ==
    /\ signals > 0
    /\ exit.exited /\ exit.at = "deadline"
    /\ HookPending # {}

\* C14: the process exits with 0 only when a shutdown call has resolved,
\* and with 1 when startup fails (the context connection, the dependency
\* resolution or a module's initialize), when the shutdown throws, and when
\* the forced-shutdown timer ends it.
C14_ExitCodes ==
    exit.exited =>
        /\ exit.code = 0 =>
            /\ exit.at = "shutdownResolved"
            /\ \E c \in 1..Len(calls) : calls[c].pc = "done"
        /\ exit.at \in {"bootstrapCatch", "shutdownCatch", "deadline"}
            => exit.code = 1
        /\ (\E c \in 1..Len(calls) : calls[c].pc = "rejected") => exit.code = 1
        /\ (phase # "serving" /\ exit.at # "killed") => exit.code = 1

\* The persistence connection failed to close during the shutdown and the
\* process has exited.
C14_Witness ==
    /\ exit.exited
    /\ exit.at = "shutdownCatch"
    /\ \E c \in 1..Len(calls) : calls[c].pc = "rejected"

\* C15: no initialize or shutdown hook runs while a request is being
\* handled: the server accepts only once every module is initialized, and
\* a module's shutdown hook is pending only when no request is in flight.
C15_NoHookWhileHandling ==
    /\ server # "none" => initCount = Len(modules)
    /\ phase = "modulesInitializing" => inflight = 0
    /\ HookPending # {} => inflight = 0

\* ====================================================================
\* Claims about pagination
\* ====================================================================

\* ceil(total / limit): the least n with n * limit >= total.
IsCeil(n, total, limit) ==
    /\ n * limit >= total
    /\ n = 0 \/ (n - 1) * limit < total

\* The envelope's derived fields agree with its page, limit and total.
EnvelopeRight(e) ==
    /\ IsCeil(e.totalPages, e.total, e.limit)
    /\ e.hasNext = (e.page < e.totalPages)
    /\ e.hasPrevious = (e.page > 1)

\* C21 as stated: for every page >= 1, limit >= 1 and total >= 0 the
\* envelope has totalPages = ceil(total/limit), hasNext = (page <
\* totalPages) and hasPrevious = (page > 1), and total = 0 gives totalPages
\* = 0, hasNext = false and hasPrevious = false whatever the page.
C21_PaginationAsStated ==
    paginated.by # "none" =>
        /\ EnvelopeRight(paginated)
        /\ paginated.total = 0 =>
            /\ paginated.totalPages = 0
            /\ ~paginated.hasNext
            /\ ~paginated.hasPrevious

\* C21: for every page >= 1, limit >= 1 and total >= 0 the envelope has
\* totalPages = ceil(total/limit), hasNext = (page < totalPages) and
\* hasPrevious = (page > 1); total = 0 gives totalPages = 0 and hasNext =
\* false, and hasPrevious = false on page 1; page 1, limit 10, total 25
\* gives totalPages 3, hasNext and no hasPrevious.
C21_PaginationEnvelope ==
    paginated.by # "none" =>
        /\ EnvelopeRight(paginated)
        /\ paginated.total = 0 =>
            /\ paginated.totalPages = 0
            /\ ~paginated.hasNext
            /\ paginated.page = 1 => ~paginated.hasPrevious
        /\ (paginated.page = 1 /\ paginated.limit = 10 /\ paginated.total = 25) =>
            /\ paginated.totalPages = 3
            /\ paginated.hasNext
            /\ ~paginated.hasPrevious

\* The first of three pages of 25 records was computed.
C21_Witness ==
    /\ paginated.by # "none"
    /\ paginated.page = 1 /\ paginated.limit = 10 /\ paginated.total = 25
    /\ paginated.totalPages = 3

\* ====================================================================
\* Claims about request validation
\* ====================================================================

\* The invalid fields of the parts of the request that have a schema.
InvalidFields(schema, req) ==
    {pf \in schema \X Fields : req[pf[1]][pf[2]] > 0}

\* C22: when validateRequest finds the body, query or params invalid, the
\* request is answered 400 VALIDATION_ERROR, details.issues holds exactly
\* one entry per invalid field across the validated parts, and the route
\* handler is not invoked.
C22_ValidationFailure400 ==
    (validation.ran /\ InvalidFields(validation.schema, validation.req) # {}) =>
        /\ validation.statusCode = 400
        /\ validation.code = "VALIDATION_ERROR"
        /\ ~validation.handlerInvoked
        /\ \A pf \in InvalidFields(validation.schema, validation.req) :
                Cardinality({i \in validation.issues :
                                i.part = pf[1] /\ i.path = pf[2]}) = 1
        /\ Cardinality(validation.issues)
                = Cardinality(InvalidFields(validation.schema, validation.req))

\* ====================================================================
\* Claims about correlation ids
\* ====================================================================

\* A header that carries an id: one that is present and not empty.
CarriesId(h) == h.present /\ h.value # ""

\* C23: every request is given one correlation id, the inbound
\* x-request-id (else x-correlation-id) value when one carries an id and a
\* generated one otherwise; that id is the response's x-request-id header
\* and the requestId of the response's success or error envelope, when
\* the response has one.
C23_CorrelationIdEchoed ==
    /\ correlation.stage # "none" =>
        /\ correlation.header =
              (IF CarriesId(correlation.xRequestId)
               THEN correlation.xRequestId.value
               ELSE IF CarriesId(correlation.xCorrelationId)
               THEN correlation.xCorrelationId.value
               ELSE uuidv4)
        /\ correlation.header = correlation.id
    /\ (correlation.stage = "answered" /\ correlation.envelope # NoRequestId) =>
            correlation.envelope = correlation.header

\* ====================================================================
\* Claims about the watchdog's cancellation
\* ====================================================================

\* The request is over: its response has finished or its connection has
\* closed.
RequestOver == finished \/ closed

\* The writes made on behalf of the watchdog's TimeoutError.
TimeoutWrites(ws) ==
    {k \in 1..Len(ws) : ws[k].from = TimeoutError({})}

\* C24: once a request's response has finished or its connection has
\* closed, no watchdog timer is pending for it, and the watchdog never
\* afterwards passes a TimeoutError on.
C24_WatchdogCancelled ==
    /\ [](RequestOver => timer # "armed")
    /\ [][RequestOver => TimeoutWrites(writes') = TimeoutWrites(writes)]_vars

\* A request that reached the watchdog stage was answered by its handler
\* and its response finished: the timer that was set is cleared.
C24_Witness ==
    /\ \E k \in 1..Len(stages) : stages[k] = "timeout"
    /\ finished
    /\ timer = "cleared"

\* ====================================================================
\* Claims about request logging
\* ====================================================================

\* C25: every request that reaches the logging stage gets exactly one
\* terminal log event: once the connection has closed before the response
\* completed, the 'aborted' event and no completion event is logged, and
\* once the response has completed, the completion event and no 'aborted'
\* event is logged.
C25_OneTerminalLogEvent ==
    LoggerListens(stages) =>
        /\ Len(logged) <= 1
        /\ (closed /\ ~finished) => logged = <<"aborted">>
        /\ finished => logged = <<"completed">>

\* ====================================================================
\* Claims about the admin routes
\* ====================================================================

\* The request carries a token that verifies and has not expired.
ValidToken(a) ==
    /\ a.kind \in {"bearer", "bare"}
    /\ a.token.signed /\ ~a.token.expired

\* The request has been answered or its handler invoked.
AdminSettled == adminRequest.statusCode # 0 \/ adminRequest.handlerInvoked

\* C26: the handler of an admin-only route is invoked only for a valid,
\* unexpired token whose role is admin; a request with a missing or invalid
\* token is answered 401 and one with a valid token of another role 403,
\* without the handler.
C26_AdminOnly ==
    /\ adminRequest.handlerInvoked =>
            (ValidToken(adminRequest.authorization)
                /\ adminRequest.authorization.token.role = "admin")
    /\ (AdminSettled /\ ~ValidToken(adminRequest.authorization)) =>
            (adminRequest.statusCode = 401 /\ ~adminRequest.handlerInvoked)
    /\ (AdminSettled /\ ValidToken(adminRequest.authorization)
            /\ adminRequest.authorization.token.role \in {"user", "moderator"}) =>
            (adminRequest.statusCode = 403 /\ ~adminRequest.handlerInvoked)

\* A moderator's valid token was refused with 403 on the role-update route.
C26_Witness ==
    /\ adminRequest.route.path = "PUT /users/:userId/role"
    /\ ValidToken(adminRequest.authorization)
    /\ adminRequest.authorization.token.role = "moderator"
    /\ adminRequest.statusCode = 403
    /\ ~adminRequest.handlerInvoked

\* ====================================================================
\* Claims about the two signal handlers
\* ====================================================================

\* The shutdown calls that have invoked the onShutdown of module i.
HookInvokedBy(i) ==
    {c \in 1..Len(calls) :
        /\ modules[i].hasOnShutdown
        /\ \/ calls[c].pc = "hook" /\ calls[c].pos <= i
           \/ calls[c].pc \in {"context", "done", "rejected"}}

\* C27: after a single termination signal, whatever the interleaving of
\* the handlers installed by spark and by bootstrap, each registered
\* module's shutdown hook is invoked at most once and the persistence
\* connection is closed at most once.
C27_ShutdownAtMostOnce ==
    signals = 1 =>
        /\ \A i \in 1..Len(modules) : Cardinality(HookInvokedBy(i)) <= 1
        /\ Cardinality(ContextClosing) <= 1

\* ====================================================================
\* Claims about deleting a record that does not exist
\* ====================================================================

\* The latest operation was a deleteById of an id without a record: the
\* client's update or delete failed with P2025.
DeletedMissing(outcome) ==
    outcome.op = "deleteById" /\ outcome.failure = PrismaError("P2025")

\* C29: deleteById on an id for which no record exists fails with NotFound
\* (404) and leaves the store unchanged, with soft delete enabled and with
\* it disabled.
C29_DeleteMissingNotFound ==
    /\ [](DeletedMissing(svcResult) =>
            /\ svcResult.error.statusCode = 404
            /\ svcResult.error.code = "NOT_FOUND")
    /\ [][DeletedMissing(svcResult') => store' = store]_vars

\* ====================================================================
\* Claims about registration
\* ====================================================================

\* The register calls that created the row the table holds for an email.
Creators(email) ==
    {c \in 1..Len(registers) :
        /\ registers[c].created
        /\ \E u \in ByEmail(users, email) : u.id = registers[c].id}

\* The other register calls with the email of call c.
SameEmail(c) ==
    {d \in 1..Len(registers) \ {c} : registers[d].email = registers[c].email}

\* C28: of the register calls with the same email at most one creates a
\* user, and every other one that has ended has failed with a Conflict
\* (409) error; no two users share an email.
C28_OneRegistrationPerEmail ==
    /\ \A email \in Emails :
            /\ Cardinality(ByEmail(users, email)) <= 1
            /\ Cardinality(Creators(email)) <= 1
    /\ \A c \in 1..Len(registers) :
            (SameEmail(c) # {} /\ registers[c].pc = "failed") =>
                /\ registers[c].error.statusCode = 409
                /\ registers[c].error.code = "CONFLICT_ERROR"

\* A row gets the role admin in this step: it has the role afterwards and
\* no row with its id had it before.
BecomesAdmin(u) ==
    /\ u \in users'
    /\ u.role = "admin"
    /\ ~\E v \in users : v.id = u.id /\ v.role = "admin"

\* C30: a user with role admin comes to exist only through the
\* default-admin seed or the admin-only role-update route; the public
\* register route neither creates a user with role admin nor returns a
\* token of role admin.
C30_NoAdminByPublicRegister ==
    /\ \A u \in users : u.by = "public" => u.role # "admin"
    /\ \A token \in tokens : token.via = "register" => token.role # "admin"
    /\ [][\A u \in users' :
              BecomesAdmin(u) => u.by \in {"seed", "adminRoute"}]_vars

\* C30 witness: a public register call asked for the role admin for an
\* unused email and has ended with the error of the refused insert, while
\* an admin holds a token from a login; no row is of a register call's
\* making, and no token is from the register route.
C30_Witness ==
    /\ \E c \in 1..Len(registers) :
            /\ registers[c].by = "public"
            /\ registers[c].role = "admin"
            /\ registers[c].pc = "failed"
            /\ registers[c].error.code = "DATABASE_ERROR"
    /\ \E token \in tokens : token.role = "admin" /\ token.via = "login"
    /\ \A u \in users : u.by # "public"
    /\ \A token \in tokens : token.via # "register"

====
